---- MODULE Spec2Model ----
(***************************************************************************)
(* A model of the glimmer runtime environment: the Environment's           *)
(* transaction protocol (begin / lifecycle registration / commit), the     *)
(* Scope slot arrays, and the test harness that drives render passes.      *)
(***************************************************************************)
EXTENDS Integers, Sequences, FiniteSets, TLC

\* ------------------------------------------------------------------------
\* Bounds of the model
\* ------------------------------------------------------------------------

\* Successful begin() calls in one behaviour.
MaxCycles == 2

\* Lifecycle registrations accepted in one behaviour (over all transactions).
MaxRegistrations == 2

\* Scope objects created in one behaviour.
MaxScopes == 2

\* The largest symbol-table size a root scope is created with.
MaxSize == 1

\* bind* calls in one behaviour.
MaxBinds == 2

\* Change-list calls and user inputs on one dynamic attribute.
MaxOps == 4

MaxObjects == 1

MaxRevision == 3

MaxReferences == 3

MaxObserved == 1

MaxItems == 3

\* The number of references one chain of get(key) calls is followed for.
MaxChain == 4

\* The number of commit() calls a callback aborts.
MaxRaised == 1

\* The number of calls callbacks make on the environment.
MaxReentries == 1

\* ------------------------------------------------------------------------
\* Objects handed to the environment by its callers
\* ------------------------------------------------------------------------

Components == {"component1", "component2"}

ComponentManagers == {"componentManager1", "componentManager2"}

Modifiers == {"modifier1"}

ModifierManagers == {"modifierManager1", "modifierManager2"}

Destroyables == {"destroyable1", "destroyable2"}

\* ------------------------------------------------------------------------
\* State
\* ------------------------------------------------------------------------

VARIABLES
    transaction,   \* Environment._transaction: <<>> is null, <<t>> an open Transaction
    commitPc,      \* where Environment.commit() stands: [phase, i]
    outcome,       \* the last call on the environment and how it ended
    log,           \* history: the callbacks invoked on managers and destroyables
    registered,    \* history: the registrations the environment accepted
    cycle          \* history: the number of transactions begun so far

VARIABLES
    scopes,        \* the Scope objects: [slots: the id of a slot array, callerScope]
    slotArrays,    \* the slot arrays the scopes refer to
    derivation,    \* history: how each scope came to be (parent, root self, root size)
    binds          \* history: the number of bind* calls made

VARIABLES
    testCase,      \* the harness class in use: RenderTest or RenderingTest
    program,       \* the calls the running harness method has still to make
    rendered       \* the harness holds a RenderResult

VARIABLES
    statement,     \* the statement last given to Environment.statement()
    refined,       \* what that call returned
    helpers        \* the names of the helpers registered with the environment

VARIABLES
    element,       \* the element a dynamic attribute is rendered on
    binding,       \* the dynamic attribute: its name, namespace and change list
    ops            \* history: the change-list calls made, with their writes

VARIABLES
    REVISION,      \* $REVISION: the revision counter of the reference library
    tags,          \* the DirtyableTag objects: [revision]
    objects,       \* the VersionedObject objects: [tag: the id of a tag, fields]
    references,    \* the SimpleRootReference and SimplePathReference objects
    observed,      \* history: the revisions observed through references
    called         \* history: the last call made on an object or reference

tagVars == <<REVISION, tags, objects, references, observed, called>>

VARIABLES
    list,          \* content(list): the list given
    out,           \* content: the strings pushed so far
    depth,         \* content: the depth counter
    returned,      \* what content returned: <<>> until it returns
    by             \* who called content: a test or assertServerOutput

markerVars == <<list, out, depth, returned, by>>

VARIABLES
    document,      \* the nodes of the document, by identity
    result,        \* the RenderResult of the test: <<>> before render()
    thisSnapshot,  \* this.snapshot of the test
    asserted,      \* history: the last assertion of the test and its outcome
    pass           \* history: the last render or rerender pass

renderVars == <<document, result, thisSnapshot, asserted, pass>>

VARIABLES
    read           \* history: the last value() call on a reference and its result

pathVars == <<read>>

VARIABLES
    raised,        \* history: the commit() calls a callback aborted
    reentered      \* history: the calls callbacks made on the environment

callbackVars == <<raised, reentered>>

furtherVars == <<pathVars, callbackVars>>

laterVars == <<tagVars, markerVars, renderVars, furtherVars>>

envVars == <<transaction, commitPc, outcome, log, registered, cycle>>

scopeVars == <<scopes, slotArrays, derivation, binds>>

harnessVars == <<testCase, program, rendered>>

syntaxVars == <<statement, refined, helpers>>

domVars == <<element, binding, ops>>

vars == <<transaction, commitPc, outcome, log, registered, cycle,
          scopes, slotArrays, derivation, binds,
          testCase, program, rendered,
          statement, refined, helpers,
          element, binding, ops,
          REVISION, tags, objects, references, observed, called,
          list, out, depth, returned, by,
          document, result, thisSnapshot, asserted, pass,
          read, raised, reentered>>

\* ------------------------------------------------------------------------
\* glimmer-util: assert / expect messages
\* ------------------------------------------------------------------------

NoError == "none"

Running == "running"

NestedTransaction == "Cannot start a nested transaction"

MustBeInTransaction == "must be in a transaction"

\* ------------------------------------------------------------------------
\* class Transaction
\* ------------------------------------------------------------------------

\* new Transaction(): the nine field initialisers.
NewTransaction ==
    [ scheduledInstallManagers        |-> <<>>,
      scheduledInstallModifiers       |-> <<>>,
      scheduledUpdateModifierManagers |-> <<>>,
      scheduledUpdateModifiers        |-> <<>>,
      createdComponents               |-> <<>>,
      createdManagers                 |-> <<>>,
      updatedComponents               |-> <<>>,
      updatedManagers                 |-> <<>>,
      destructors                     |-> <<>> ]

TransactionDidCreate(t, component, manager) ==
    [t EXCEPT !.createdComponents = Append(@, component),
              !.createdManagers   = Append(@, manager)]

TransactionDidUpdate(t, component, manager) ==
    [t EXCEPT !.updatedComponents = Append(@, component),
              !.updatedManagers   = Append(@, manager)]

TransactionScheduleInstallModifier(t, modifier, manager) ==
    [t EXCEPT !.scheduledInstallManagers  = Append(@, manager),
              !.scheduledInstallModifiers = Append(@, modifier)]

TransactionScheduleUpdateModifier(t, modifier, manager) ==
    [t EXCEPT !.scheduledUpdateModifierManagers = Append(@, manager),
              !.scheduledUpdateModifiers        = Append(@, modifier)]

\* Mutant of TransactionDidDestroy: the destructor is pushed and the
\* components created so far are forgotten.
TransactionDidDestroyForgetting(t, d) ==
    [t EXCEPT !.destructors = Append(@, d),
              !.createdComponents = <<>>,
              !.createdManagers = <<>>]

TransactionDidDestroy(t, d) ==
    [t EXCEPT !.destructors = Append(@, d)]

\* The five loops of Transaction.commit(), named by the callback each invokes.
Phases == <<"didCreate", "didUpdate", "destroy", "install", "update">>

FirstPhase == Phases[1]

Returning == "return"

Idle == "idle"

PhaseIndex(phase) == CHOOSE k \in 1..Len(Phases) : Phases[k] = phase

\* Mutant of NextPhase: the modifier loops run before the destructor loop.
NextPhaseModifiersFirst(phase) ==
    CASE phase = "didCreate" -> "didUpdate"
      [] phase = "didUpdate" -> "install"
      [] phase = "install"   -> "update"
      [] phase = "update"    -> "destroy"
      [] phase = "destroy"   -> Returning

\* The loop that follows a finished loop; after the last one commit() returns.
NextPhase(phase) ==
    IF PhaseIndex(phase) < Len(Phases) THEN Phases[PhaseIndex(phase) + 1]
                                       ELSE Returning

\* The loop bound of each loop: the length of the array the loop tests.
LoopLength(t, phase) ==
    CASE phase = "didCreate" -> Len(t.createdComponents)
      [] phase = "didUpdate" -> Len(t.updatedComponents)
      [] phase = "destroy"   -> Len(t.destructors)
      [] phase = "install"   -> Len(t.scheduledInstallManagers)
      [] phase = "update"    -> Len(t.scheduledUpdateModifierManagers)

\* Mutant of LoopCall: the component / modifier array is read from its far end,
\* so a manager is called with another entry's component or modifier.
LoopCallCrossed(t, phase, i) ==
    CASE phase = "didCreate" ->
           [op |-> "didCreate", receiver |-> t.createdManagers[i],
            argument |-> t.createdComponents[Len(t.createdComponents) + 1 - i]]
      [] phase = "didUpdate" ->
           [op |-> "didUpdate", receiver |-> t.updatedManagers[i],
            argument |-> t.updatedComponents[Len(t.updatedComponents) + 1 - i]]
      [] phase = "destroy" ->
           [op |-> "destroy", receiver |-> t.destructors[Len(t.destructors) + 1 - i],
            argument |-> "none"]
      [] phase = "install" ->
           [op |-> "install", receiver |-> t.scheduledInstallManagers[i],
            argument |-> t.scheduledInstallModifiers[Len(t.scheduledInstallModifiers) + 1 - i]]
      [] phase = "update" ->
           [op |-> "update", receiver |-> t.scheduledUpdateModifierManagers[i],
            argument |-> t.scheduledUpdateModifiers[Len(t.scheduledUpdateModifiers) + 1 - i]]

\* The call made by iteration i of a loop: receiver.op(argument).
LoopCall(t, phase, i) ==
    CASE phase = "didCreate" ->
           [op |-> "didCreate", receiver |-> t.createdManagers[i],
            argument |-> t.createdComponents[i]]
      [] phase = "didUpdate" ->
           [op |-> "didUpdate", receiver |-> t.updatedManagers[i],
            argument |-> t.updatedComponents[i]]
      [] phase = "destroy" ->
           [op |-> "destroy", receiver |-> t.destructors[i],
            argument |-> "none"]
      [] phase = "install" ->
           [op |-> "install", receiver |-> t.scheduledInstallManagers[i],
            argument |-> t.scheduledInstallModifiers[i]]
      [] phase = "update" ->
           [op |-> "update", receiver |-> t.scheduledUpdateModifierManagers[i],
            argument |-> t.scheduledUpdateModifiers[i]]

\* ------------------------------------------------------------------------
\* class Environment
\* ------------------------------------------------------------------------

InTransaction == transaction # <<>>

\* No call on the environment is executing.
AtRest == commitPc.phase = Idle

Result(call, error) == [call |-> call, error |-> error]

\* A registration as the history records it.
Entry(op, receiver, argument) ==
    [cycle |-> cycle, op |-> op, receiver |-> receiver, argument |-> argument]

\* The transaction after begin() when none is open.
BegunTransaction == <<NewTransaction>>

\* Mutant of EnvBegin: the assert is missing, so begin() always installs a new
\* Transaction.
EnvBeginUnguarded ==
    /\ AtRest
    /\ cycle < MaxCycles
    /\ transaction' = BegunTransaction
    /\ cycle' = cycle + 1
    /\ outcome' = Result("begin", NoError)
    /\ UNCHANGED <<commitPc, log, registered>>

\* begin(): assert(!this._transaction, ...); this._transaction = new Transaction()
EnvBegin ==
    /\ AtRest
    /\ IF InTransaction
         THEN /\ outcome' = Result("begin", NestedTransaction)
              /\ UNCHANGED <<transaction, cycle>>
         ELSE /\ cycle < MaxCycles
              /\ transaction' = BegunTransaction
              /\ cycle' = cycle + 1
              /\ outcome' = Result("begin", NoError)
    /\ UNCHANGED <<commitPc, log, registered>>

\* A registration method that opens a transaction when none is open.
EnvRegisterOpening(call, op, receiver, argument, next) ==
    /\ AtRest
    /\ Len(registered) < MaxRegistrations
    /\ transaction' = <<next>>
    /\ registered' = Append(registered, Entry(op, receiver, argument))
    /\ outcome' = Result(call, NoError)
    /\ UNCHANGED <<commitPc, log, cycle>>

\* Mutant of EnvRegister: the callback is also invoked at once.
EnvRegisterEager(call, op, receiver, argument, next) ==
    /\ AtRest
    /\ IF InTransaction
         THEN /\ Len(registered) < MaxRegistrations
              /\ transaction' = <<next>>
              /\ registered' = Append(registered, Entry(op, receiver, argument))
              /\ log' = Append(log, Entry(op, receiver, argument))
              /\ outcome' = Result(call, NoError)
         ELSE /\ outcome' = Result(call, MustBeInTransaction)
              /\ UNCHANGED <<transaction, registered, log>>
    /\ UNCHANGED <<commitPc, cycle>>

\* The registration methods: this.transaction.<method>(...), where the
\* `transaction` getter raises when no transaction is open.
EnvRegister(call, op, receiver, argument, next) ==
    /\ AtRest
    /\ IF InTransaction
         THEN /\ Len(registered) < MaxRegistrations
              /\ transaction' = <<next>>
              /\ registered' = Append(registered, Entry(op, receiver, argument))
              /\ outcome' = Result(call, NoError)
         ELSE /\ outcome' = Result(call, MustBeInTransaction)
              /\ UNCHANGED <<transaction, registered>>
    /\ UNCHANGED <<commitPc, log, cycle>>

EnvDidCreate(component, manager) ==
    EnvRegister("didCreate", "didCreate", manager, component,
                IF InTransaction
                  THEN TransactionDidCreate(transaction[1], component, manager)
                  ELSE NewTransaction)

EnvDidUpdate(component, manager) ==
    EnvRegister("didUpdate", "didUpdate", manager, component,
                IF InTransaction
                  THEN TransactionDidUpdate(transaction[1], component, manager)
                  ELSE NewTransaction)

EnvScheduleInstallModifier(modifier, manager) ==
    EnvRegister("scheduleInstallModifier", "install", manager, modifier,
                IF InTransaction
                  THEN TransactionScheduleInstallModifier(transaction[1], modifier, manager)
                  ELSE NewTransaction)

EnvScheduleUpdateModifier(modifier, manager) ==
    EnvRegister("scheduleUpdateModifier", "update", manager, modifier,
                IF InTransaction
                  THEN TransactionScheduleUpdateModifier(transaction[1], modifier, manager)
                  ELSE NewTransaction)

EnvDidDestroy(d) ==
    EnvRegister("didDestroy", "destroy", d, "none",
                IF InTransaction
                  THEN TransactionDidDestroy(transaction[1], d)
                  ELSE NewTransaction)

\* Mutant of EnvCommitCall: with no transaction open commit() returns quietly.
EnvCommitCallUnchecked ==
    /\ AtRest
    /\ IF InTransaction
         THEN /\ commitPc' = [phase |-> FirstPhase, i |-> 1]
              /\ outcome' = Result("commit", Running)
         ELSE /\ outcome' = Result("commit", NoError)
              /\ UNCHANGED commitPc
    /\ UNCHANGED <<transaction, log, registered, cycle>>

\* commit(), entry: this.transaction raises when no transaction is open;
\* otherwise Transaction.commit() starts with its first loop.
EnvCommitCall ==
    /\ AtRest
    /\ IF InTransaction
         THEN /\ commitPc' = [phase |-> FirstPhase, i |-> 1]
              /\ outcome' = Result("commit", Running)
         ELSE /\ outcome' = Result("commit", MustBeInTransaction)
              /\ UNCHANGED commitPc
    /\ UNCHANGED <<transaction, log, registered, cycle>>

Draining == commitPc.phase \notin {Idle, Returning}

\* One iteration of the current loop: the callback is invoked and returns
\* without calling back into the environment.
EnvCommitInvoke ==
    /\ Draining
    /\ commitPc.i <= LoopLength(transaction[1], commitPc.phase)
    /\ log' = Append(log, [cycle |-> cycle] @@
                          LoopCall(transaction[1], commitPc.phase, commitPc.i))
    /\ commitPc' = [commitPc EXCEPT !.i = @ + 1]
    /\ UNCHANGED <<transaction, outcome, registered, cycle>>

\* The current loop's test fails: on to the next loop.
EnvCommitAdvance ==
    /\ Draining
    /\ commitPc.i > LoopLength(transaction[1], commitPc.phase)
    /\ commitPc' = [phase |-> NextPhase(commitPc.phase), i |-> 1]
    /\ UNCHANGED <<transaction, outcome, log, registered, cycle>>

\* Mutant of CommittedTransaction: commit() forgets to reset _transaction.
KeptTransaction == transaction

\* The transaction after Transaction.commit() has returned.
CommittedTransaction == <<>>

\* commit(), exit: this._transaction = null
EnvCommitReturn ==
    /\ commitPc.phase = Returning
    /\ transaction' = CommittedTransaction
    /\ commitPc' = [phase |-> Idle, i |-> 1]
    /\ outcome' = Result("commit", NoError)
    /\ UNCHANGED <<log, registered, cycle>>

EnvInit ==
    /\ transaction = <<>>
    /\ commitPc = [phase |-> Idle, i |-> 1]
    /\ outcome = Result("new", NoError)
    /\ log = <<>>
    /\ registered = <<>>
    /\ cycle = 0

\* ------------------------------------------------------------------------
\* Callbacks that raise or call back into the environment
\* ------------------------------------------------------------------------

\* What a raising callback raises.
CallbackError == "raised by a callback"

\* A call a callback made on the environment, as the history records it:
\* the loop that was running, the registration made (if any), and the
\* number of callbacks invoked so far.
Reentry(call, error, entries) ==
    [call |-> call, error |-> error, during |-> commitPc.phase,
     cycle |-> cycle, entry |-> entries, at |-> Len(log) + 1]

\* The callback of the current iteration is invoked.
Invoked ==
    Append(log, [cycle |-> cycle] @@ LoopCall(transaction[1], commitPc.phase, commitPc.i))

\* One iteration of the current loop whose callback raises: the exception
\* leaves Transaction.commit() and Environment.commit(), and the statement
\* `this._transaction = null` is not reached.
EnvCommitInvokeRaising ==
    /\ Draining
    /\ commitPc.i <= LoopLength(transaction[1], commitPc.phase)
    /\ Len(raised) < MaxRaised
    /\ log' = Invoked
    /\ raised' = Append(raised, [cycle |-> cycle, at |-> Len(log')])
    /\ commitPc' = [phase |-> Idle, i |-> 1]
    /\ outcome' = Result("commit", CallbackError)
    /\ UNCHANGED <<transaction, registered, cycle, reentered>>

\* One iteration of the current loop whose callback calls begin(): the
\* assert of begin() fails, the callback goes on and returns.
EnvCommitInvokeBeginning ==
    /\ Draining
    /\ commitPc.i <= LoopLength(transaction[1], commitPc.phase)
    /\ Len(reentered) < MaxReentries
    /\ log' = Invoked
    /\ IF InTransaction
         THEN /\ outcome' = Result("begin", NestedTransaction)
              /\ UNCHANGED <<transaction, cycle>>
         ELSE /\ transaction' = BegunTransaction
              /\ cycle' = cycle + 1
              /\ outcome' = Result("begin", NoError)
    /\ reentered' = Append(reentered, Reentry("begin", outcome'.error, <<>>))
    /\ commitPc' = [commitPc EXCEPT !.i = @ + 1]
    /\ UNCHANGED <<registered, raised>>

\* One iteration of the current loop whose callback calls a registration
\* method, this.transaction.<method>(...), and returns.
EnvCommitInvokeRegistering(call, op, receiver, argument, next) ==
    /\ Draining
    /\ commitPc.i <= LoopLength(transaction[1], commitPc.phase)
    /\ Len(reentered) < MaxReentries
    /\ log' = Invoked
    /\ IF InTransaction
         THEN /\ transaction' = <<next>>
              /\ registered' = Append(registered, Entry(op, receiver, argument))
              /\ outcome' = Result(call, NoError)
              /\ reentered' = Append(reentered,
                                 Reentry(call, NoError, <<Entry(op, receiver, argument)>>))
         ELSE /\ outcome' = Result(call, MustBeInTransaction)
              /\ reentered' = Append(reentered, Reentry(call, MustBeInTransaction, <<>>))
              /\ UNCHANGED <<transaction, registered>>
    /\ commitPc' = [commitPc EXCEPT !.i = @ + 1]
    /\ UNCHANGED <<cycle, raised>>

\* The registration methods of the environment.
RegistrationCalls ==
    {"didCreate", "didUpdate", "scheduleInstallModifier", "scheduleUpdateModifier",
     "didDestroy"}

\* The methods of the environment that do not touch its transaction:
\* toConditionalReference(reference), getDOM(), getAppendOperations() and
\* getIdentity(object) return a value computed from their argument or from
\* a field set by the constructor.
Getters == {"toConditionalReference", "getDOM", "getAppendOperations", "getIdentity"}

EnvGet(call) ==
    /\ AtRest
    /\ outcome' = Result(call, NoError)
    /\ UNCHANGED <<transaction, commitPc, log, registered, cycle>>

CallbackIdle ==
    /\ raised = <<>>
    /\ reentered = <<>>

\* ------------------------------------------------------------------------
\* class Scope
\* ------------------------------------------------------------------------

UNDEFINED_REFERENCE == "UNDEFINED_REFERENCE"

\* Option<Scope>: null
NoScope == 0

\* The values a caller passes as self and binds into slots.
SelfReferences == {"self1", "self2"}

PathReferences == {"reference1"}

InlineBlocks == {"block1"}

EvaluatedArgsValues == {"args1"}

ScopeIds == 1..Len(scopes)

\* this.slots of scope s: the contents of the array it refers to.
Slots(s) == slotArrays[scopes[s].slots]

GetSelf(s) == Slots(s)[0]

GetSymbol(s, symbol) == Slots(s)[symbol]

GetBlock(s, symbol) == Slots(s)[symbol]

GetPartialArgs(s, symbol) == Slots(s)[symbol]

GetCallerScope(s) == scopes[s].callerScope

\* The symbols a compiled template binds in scope s: the symbol table numbers
\* them from 1 up to its size; 0 is self.
Symbols(s) == DOMAIN Slots(s) \ {0}

\* Mutant of RootSlots: the array is allocated one slot short.
RootSlotsShort(self, size) ==
    [[i \in 0..(IF size > 0 THEN size - 1 ELSE 0) |-> UNDEFINED_REFERENCE]
        EXCEPT ![0] = self]

\* Scope.root: size + 1 slots holding UNDEFINED_REFERENCE, then init({ self })
\* stores self in slot 0.
RootSlots(self, size) ==
    [[i \in 0..size |-> UNDEFINED_REFERENCE] EXCEPT ![0] = self]

\* Scope.root(self, size)
ScopeRoot(self, size) ==
    /\ Len(scopes) < MaxScopes
    /\ slotArrays' = Append(slotArrays, RootSlots(self, size))
    /\ scopes' = Append(scopes, [slots |-> Len(slotArrays) + 1,
                                 callerScope |-> NoScope])
    /\ derivation' = Append(derivation,
                            [parent |-> NoScope, self |-> self, size |-> size])
    /\ UNCHANGED binds

\* Mutant of SlicedSlots: child() hands its own array to the new scope.
SharedSlots(s) == <<slotArrays, scopes[s].slots>>

\* this.slots.slice(): a new array with the same elements. The result is the
\* pair of the arrays after the call and the id of the new array.
SlicedSlots(s) == <<Append(slotArrays, Slots(s)), Len(slotArrays) + 1>>

\* Mutant of ChildCallerScope: child() does not pass the caller scope on.
DroppedCallerScope(s) == NoScope

\* The second constructor argument of child(): this.callerScope
ChildCallerScope(s) == scopes[s].callerScope

\* child(): new Scope(this.slots.slice(), this.callerScope)
ScopeChild(s) ==
    /\ Len(scopes) < MaxScopes
    /\ slotArrays' = SlicedSlots(s)[1]
    /\ scopes' = Append(scopes, [slots |-> SlicedSlots(s)[2],
                                 callerScope |-> ChildCallerScope(s)])
    /\ derivation' = Append(derivation,
                            [parent |-> s, self |-> derivation[s].self,
                             size |-> derivation[s].size])
    /\ UNCHANGED binds

\* bindSymbol / bindBlock / bindPartialArgs: this.slots[symbol] = value
ScopeBind(s, symbol, value) ==
    /\ binds < MaxBinds
    /\ slotArrays' = [slotArrays EXCEPT ![scopes[s].slots][symbol] = value]
    /\ binds' = binds + 1
    /\ UNCHANGED <<scopes, derivation>>

ScopeBindSymbol(s, symbol, value) == ScopeBind(s, symbol, value)

ScopeBindBlock(s, symbol, value) == ScopeBind(s, symbol, value)

ScopeBindPartialArgs(s, symbol, value) == ScopeBind(s, symbol, value)

\* bindCallerScope(scope): this.callerScope = scope
ScopeBindCallerScope(s, scope) ==
    /\ binds < MaxBinds
    /\ scopes' = [scopes EXCEPT ![s].callerScope = scope]
    /\ binds' = binds + 1
    /\ UNCHANGED <<slotArrays, derivation>>

ScopeInit ==
    /\ scopes = <<>>
    /\ slotArrays = <<>>
    /\ derivation = <<>>
    /\ binds = 0

\* ------------------------------------------------------------------------
\* The test harness: RenderTest, RenderingTest and renderTemplate
\* ------------------------------------------------------------------------

TestCases == {"RenderTest", "RenderingTest"}

\* function renderTemplate(env, template, options): env.begin(), the
\* iterator loop, env.commit(), and the result returned to the caller.
RenderTemplate == <<"begin", "next", "commit", "result">>

\* RenderTest.render: this.renderResult = this.renderTemplate(...)
RenderTestRender == RenderTemplate

\* RenderTest.rerender
RenderTestRerender == <<"begin", "rerender", "commit">>

\* RenderTest.runTask(callback): return callback()
RenderTestRunTask(callback) == callback

\* RenderTest.assertStableRerender: this.runTask(() => this.rerender())
RenderTestAssertStableRerender == RenderTestRunTask(RenderTestRerender)

\* RenderingTest.render
RenderingTestRender == <<"begin", "next", "result", "commit">>

\* RenderingTest.rerender: this.result!.rerender()
RenderingTestRerender == <<"rerender">>

\* RenderingTest.assertStableRerender: this.rerender() between the snapshots
RenderingTestAssertStableRerender == RenderingTestRerender

\* RenderingTest.runTask(callback)
RenderingTestRunTask == <<"callback", "begin", "rerender", "commit">>

\* The methods of each harness class; the ones that use the RenderResult are
\* called after render().
Methods(class) ==
    IF class = "RenderTest"
      THEN { [name |-> "render", needsResult |-> FALSE, body |-> RenderTestRender],
             [name |-> "rerender", needsResult |-> TRUE, body |-> RenderTestRerender],
             [name |-> "assertStableRerender", needsResult |-> TRUE,
              body |-> RenderTestAssertStableRerender] }
      ELSE { [name |-> "render", needsResult |-> FALSE, body |-> RenderingTestRender],
             [name |-> "rerender", needsResult |-> TRUE, body |-> RenderingTestRerender],
             [name |-> "assertStableRerender", needsResult |-> TRUE,
              body |-> RenderingTestAssertStableRerender],
             [name |-> "runTask", needsResult |-> TRUE, body |-> RenderingTestRunTask] }

Executing(instruction) == program # <<>> /\ Head(program) = instruction

\* What is left of the running method after an environment call: the rest,
\* or nothing when the call raised.
AfterCall == IF outcome'.error = NoError THEN Tail(program) ELSE <<>>

\* A test calls a harness method.
HarnessCall ==
    /\ program = <<>>
    /\ AtRest
    /\ \E method \in Methods(testCase) :
          /\ method.needsResult => rendered
          /\ program' = method.body
    /\ UNCHANGED <<envVars, scopeVars, testCase, rendered, syntaxVars, domVars, laterVars>>

\* this.env.begin()
HarnessBegin ==
    /\ Executing("begin")
    /\ EnvBegin
    /\ program' = AfterCall
    /\ UNCHANGED <<scopeVars, testCase, rendered, syntaxVars, domVars, laterVars>>

\* The lifecycle registrations the VM makes while it builds or updates the
\* tree: none, or one call of a registration method of the environment.
PassRegisters ==
    \/ /\ AtRest
       /\ outcome' = Result("pass", NoError)
       /\ UNCHANGED <<transaction, commitPc, log, registered, cycle>>
    \/ \E c \in Components, m \in ComponentManagers : EnvDidCreate(c, m)
    \/ \E c \in Components, m \in ComponentManagers : EnvDidUpdate(c, m)
    \/ \E x \in Modifiers, m \in ModifierManagers : EnvScheduleInstallModifier(x, m)
    \/ \E x \in Modifiers, m \in ModifierManagers : EnvScheduleUpdateModifier(x, m)
    \/ \E d \in Destroyables : EnvDidDestroy(d)

\* templateIterator.next(): one step of the render pass, repeated until done.
HarnessNext ==
    /\ Executing("next")
    /\ PassRegisters
    /\ \E done \in BOOLEAN :
          program' = IF outcome'.error # NoError THEN <<>>
                     ELSE IF done THEN Tail(program) ELSE program
    /\ UNCHANGED <<scopeVars, testCase, rendered, syntaxVars, domVars, laterVars>>

\* renderResult.rerender(): the update pass.
HarnessRerender ==
    /\ Executing("rerender")
    /\ PassRegisters
    /\ program' = AfterCall
    /\ UNCHANGED <<scopeVars, testCase, rendered, syntaxVars, domVars, laterVars>>

\* this.env.commit(): the call; the loops of commit run before the method
\* goes on.
HarnessCommit ==
    /\ Executing("commit")
    /\ EnvCommitCall
    /\ program' = IF outcome'.error = MustBeInTransaction THEN <<>>
                                                         ELSE Tail(program)
    /\ UNCHANGED <<scopeVars, testCase, rendered, syntaxVars, domVars, laterVars>>

\* The RenderResult is stored in the harness.
HarnessResult ==
    /\ Executing("result")
    /\ AtRest
    /\ rendered' = TRUE
    /\ program' = Tail(program)
    /\ UNCHANGED <<envVars, scopeVars, testCase, syntaxVars, domVars, laterVars>>

\* The callback given to RenderingTest.runTask runs.
HarnessCallback ==
    /\ Executing("callback")
    /\ AtRest
    /\ program' = Tail(program)
    /\ UNCHANGED <<envVars, scopeVars, testCase, rendered, syntaxVars, domVars, laterVars>>

HarnessCommitInvoke == EnvCommitInvoke /\ UNCHANGED <<scopeVars, harnessVars, syntaxVars, domVars, laterVars>>

HarnessCommitAdvance == EnvCommitAdvance /\ UNCHANGED <<scopeVars, harnessVars, syntaxVars, domVars, laterVars>>

HarnessCommitReturn == EnvCommitReturn /\ UNCHANGED <<scopeVars, harnessVars, syntaxVars, domVars, laterVars>>

HarnessIdle ==
    /\ program = <<>>
    /\ rendered = FALSE

\* ------------------------------------------------------------------------
\* Statement refinement: parseStatement and Environment.statement
\* ------------------------------------------------------------------------

\* JavaScript's null and undefined, and the boolean true, as values.
Null == "<null>"

Undefined == "<undefined>"

True == "<true>"

\* The first parts of the paths a template names.
Keys == {"each", "if", "with", "unless", "foo"}

\* Paths: no part, one part, two parts.
Paths == {<<>>} \cup {<<k>> : k \in Keys} \cup {<<k, "bar">> : k \in Keys}

\* Syntax.Args objects.
ArgsValues == {"args1", "args2"}

\* Syntax.Args.empty()
EmptyArgs == "emptyArgs"

\* The identity of the statement object given to statement(), and of an object
\* statement() constructs.
GivenRef == 1

NewRef == 2

\* Syntax.Block: { type: 'block', path, args }. An Option is a sequence of
\* length at most one; args of <<>> is a block without args.
Blocks ==
    [ref : {GivenRef}, type : {"block"}, path : {<<p>> : p \in Paths},
     args : {<<>>} \cup {<<a>> : a \in ArgsValues}, value : {<<>>}]

\* Syntax.OptimizedAppend: { type: 'optimized-append', value }, the value an
\* Unknown or a Get ({ type, ref: { parts } }), a Helper ({ type, ref, args })
\* or another expression.
Appends ==
    [ref : {GivenRef}, type : {"optimized-append"}, path : {<<>>}, args : {<<>>},
     value : {<<v>> : v \in
                [type : {"unknown", "get"}, parts : Paths, args : {EmptyArgs}]
                \cup [type : {"helper"}, parts : Paths, args : {"args1"}]
                \cup [type : {"value"}, parts : {<<>>}, args : {EmptyArgs}]}]

\* Syntax.Modifier: { type: 'modifier', path, args }
ModifierStatements ==
    [ref : {GivenRef}, type : {"modifier"}, path : {<<p>> : p \in Paths},
     args : {<<"args1">>}, value : {<<>>}]

\* Every other statement type.
OtherStatements ==
    [ref : {GivenRef}, type : {"text", "open-element"}, path : {<<>>},
     args : {<<>>}, value : {<<>>}]

Statements == Blocks \cup Appends \cup ModifierStatements \cup OtherStatements

\* The names a helper can be registered under.
HelperNames == {"if", "foo"}

\* path[0]: undefined for an empty array.
First(path) == IF Len(path) >= 1 THEN path[1] ELSE Undefined

\* function parseStatement(statement)
ParseStatement(s) ==
    LET block      == IF s.type = "block" THEN <<s>> ELSE <<>>
        append     == IF s.type = "optimized-append" THEN <<s>> ELSE <<>>
        modifier   == IF s.type = "modifier" THEN <<s>> ELSE <<>>
        appendType == IF append # <<>> THEN <<append[1].value[1].type>> ELSE <<>>
        found ==
            IF block # <<>>
              THEN [args |-> block[1].args, path |-> block[1].path]
            ELSE IF append # <<>> /\ appendType[1] \in {"unknown", "get"}
              THEN [args |-> <<EmptyArgs>>, path |-> <<append[1].value[1].parts>>]
            ELSE IF append # <<>> /\ append[1].value[1].type = "helper"
              THEN [args |-> <<append[1].value[1].args>>,
                    path |-> <<append[1].value[1].parts>>]
            ELSE IF modifier # <<>>
              THEN [args |-> modifier[1].args, path |-> modifier[1].path]
            ELSE [args |-> <<>>, path |-> <<>>]
    IN  [ isSimple   |-> found.path # <<>> /\ Len(found.path[1]) = 1,
          path       |-> found.path,
          key        |-> IF found.path # <<>> THEN <<First(found.path[1])>> ELSE <<>>,
          args       |-> found.args,
          appendType |-> appendType,
          original   |-> s,
          isInline   |-> append # <<>>,
          isBlock    |-> block # <<>>,
          isModifier |-> modifier # <<>> ]

\* new EachSyntax(args), new IfSyntax(args), new WithSyntax(args),
\* new UnlessSyntax(args)
NewSyntax(class, args) == [ref |-> NewRef, type |-> class, args |-> <<args>>]

\* The switch of refineStatement: the class constructed for each key.
BuiltIns ==
    [each |-> "EachSyntax", if |-> "IfSyntax", with |-> "WithSyntax",
     unless |-> "UnlessSyntax"]

\* Mutant of BuiltInFor: 'if' and 'unless' construct each other's syntax.
BuiltInForSwapped(key) ==
    CASE key = "if" -> "UnlessSyntax"
      [] key = "unless" -> "IfSyntax"
      [] OTHER -> BuiltIns[key]

BuiltInFor(key) == BuiltIns[key]

\* Mutant of Refinable: the isBlock test is missing.
RefinableInline(env, parsed) == parsed.isSimple /\ parsed.args # <<>>

\* Mutant of Refinable: a key with a registered helper is left to the helper.
RefinableUnlessHelper(env, parsed) ==
    /\ parsed.isSimple /\ parsed.isBlock /\ parsed.args # <<>>
    /\ parsed.key[1] \notin env.helpers

\* The guard of refineStatement: isSimple && isBlock && args
Refinable(env, parsed) == parsed.isSimple /\ parsed.isBlock /\ parsed.args # <<>>

\* Environment.refineStatement(statement, symbolTable): Option<StatementSyntax>
RefineStatement(env, parsed) ==
    IF Refinable(env, parsed) /\ parsed.key[1] \in DOMAIN BuiltIns
      THEN <<NewSyntax(BuiltInFor(parsed.key[1]), parsed.args[1])>>
      ELSE <<>>

\* Environment.statement(statement, symbolTable):
\* this.refineStatement(parseStatement(statement), symbolTable) || statement
Statement(env, s) ==
    LET refinement == RefineStatement(env, ParseStatement(s))
    IN  IF refinement # <<>> THEN refinement[1] ELSE s

\* The environment a call of statement() runs on.
ThisEnvironment == [helpers |-> helpers]

\* A caller has the environment refine a statement.
EnvStatement(s) ==
    /\ statement' = <<s>>
    /\ refined' = <<Statement(ThisEnvironment, s)>>
    /\ UNCHANGED helpers

\* A helper is registered with the environment (hasHelper / lookupHelper
\* answer for its name from then on).
EnvRegisterHelper(name) ==
    /\ name \notin helpers
    /\ helpers' = helpers \cup {name}
    /\ UNCHANGED <<statement, refined>>

SyntaxInit ==
    /\ statement = <<>>
    /\ refined = <<>>
    /\ helpers = {}

\* ------------------------------------------------------------------------
\* The host document: elements, their properties and attributes
\* ------------------------------------------------------------------------

SVG_NAMESPACE == "http://www.w3.org/2000/svg"

HTML_NAMESPACE == "http://www.w3.org/1999/xhtml"

XLINK_NAMESPACE == "http://www.w3.org/1999/xlink"

\* namespace?: no namespace given
NoNamespace == Null

Namespaces == {NoNamespace, XLINK_NAMESPACE}

\* The elements a dynamic attribute is rendered on: an anchor and an input of
\* a browser document, an anchor of a document whose nodes have no properties,
\* and an anchor in the SVG namespace.
Elements ==
    { [tagName |-> "A", namespaceURI |-> HTML_NAMESPACE, has |-> {"href", "title"}],
      [tagName |-> "A", namespaceURI |-> HTML_NAMESPACE, has |-> {}],
      [tagName |-> "INPUT", namespaceURI |-> HTML_NAMESPACE, has |-> {"value", "title"}],
      [tagName |-> "A", namespaceURI |-> SVG_NAMESPACE, has |-> {"href"}] }

\* A new element: its properties hold their empty value, it has no attribute.
CreateElement(e) ==
    [tagName |-> e.tagName, namespaceURI |-> e.namespaceURI,
     properties |-> [name \in e.has |-> ""], attributes |-> {}]

\* The attribute names a template uses.
AttrNames == {"href", "value", "title", "TITLE", "xlink:href"}

\* The values a reference yields.
Values == {Null, Undefined, "", "a", "javascript:b"}

\* What a user types into an input.
UserTexts == {"a"}

\* String.prototype.toLowerCase on the attribute names.
ToLowerCase(name) ==
    IF name = "TITLE" THEN "title" ELSE IF name = "VALUE" THEN "value" ELSE name

\* The writes a change list makes on the host.
PropertyWrite(name, value) ==
    [kind |-> "property", name |-> name, value |-> value, namespace |-> NoNamespace]

SetAttributeWrite(name, value, namespace) ==
    [kind |-> "setAttribute", name |-> name, value |-> value, namespace |-> namespace]

RemoveAttributeWrite(name) ==
    [kind |-> "removeAttribute", name |-> name, value |-> Null, namespace |-> NoNamespace]

RemoveAttributeNSWrite(name, namespace) ==
    [kind |-> "removeAttributeNS", name |-> name, value |-> Null, namespace |-> namespace]

\* element[name] = value
AssignProperty(el, name, value) ==
    [el EXCEPT !.properties = (name :> value) @@ @]

\* dom.setAttribute(element, name, value, namespace): setAttributeNS with a
\* namespace, which sets the attribute of that namespace and name;
\* setAttribute without, which sets the attribute of that qualified name.
HostSetAttribute(el, name, value, namespace) ==
    LET Same(a) == /\ a.name = name
                   /\ namespace # NoNamespace => a.namespace = namespace
    IN  IF \E a \in el.attributes : Same(a)
          THEN [el EXCEPT !.attributes =
                   {IF Same(a) THEN [a EXCEPT !.value = value] ELSE a : a \in @}]
          ELSE [el EXCEPT !.attributes =
                   @ \cup {[name |-> name, namespace |-> namespace, value |-> value]}]

\* dom.removeAttribute(element, name)
HostRemoveAttribute(el, name) ==
    [el EXCEPT !.attributes = {a \in @ : a.name # name}]

\* dom.removeAttributeNS(element, namespace, name)
HostRemoveAttributeNS(el, namespace, name) ==
    [el EXCEPT !.attributes = {a \in @ : ~(a.name = name /\ a.namespace = namespace)}]

\* The element after one write.
Perform(el, w) ==
    CASE w.kind = "property" -> AssignProperty(el, w.name, w.value)
      [] w.kind = "setAttribute" -> HostSetAttribute(el, w.name, w.value, w.namespace)
      [] w.kind = "removeAttribute" -> HostRemoveAttribute(el, w.name)
      [] w.kind = "removeAttributeNS" -> HostRemoveAttributeNS(el, w.namespace, w.name)

\* The element after the writes of one call; a call makes at most one.
PerformAll(el, writes) == IF writes = <<>> THEN el ELSE Perform(el, writes[1])

\* ------------------------------------------------------------------------
\* props, content and sanitized-values
\* ------------------------------------------------------------------------

\* normalizeProperty(element, attr): a property when the element has one of
\* that name or of its lower-case name, an attribute otherwise.
NormalizeProperty(el, attr) ==
    IF attr \in DOMAIN el.properties
      THEN [type |-> "prop", normalized |-> attr]
    ELSE IF ToLowerCase(attr) \in DOMAIN el.properties
      THEN [type |-> "prop", normalized |-> ToLowerCase(attr)]
    ELSE [type |-> "attr", normalized |-> attr]

\* normalizePropertyValue(value): the empty string stands for true.
NormalizePropertyValue(value) == IF value = "" THEN True ELSE value

\* normalizeTextValue(value): the empty string for null and undefined.
NormalizeTextValue(value) == IF value \in {Null, Undefined} THEN "" ELSE value

BadTags == {"A", "BODY", "LINK", "IMG", "IFRAME", "BASE", "FORM"}

BadAttributes == {"href", "src", "background", "action"}

BadProtocols == {"javascript:", "vbscript:"}

\* requiresSanitization(tagName, attr)
RequiresSanitization(tagName, attr) == tagName \in BadTags /\ attr \in BadAttributes

\* env.protocolForURL(url)
ProtocolForURL(url) == IF url = "javascript:b" THEN "javascript:" ELSE "http:"

\* sanitizeAttributeValue(env, element, attr, value)
SanitizeAttributeValue(el, attr, value) ==
    IF value \in {Null, Undefined} THEN value
    ELSE IF /\ RequiresSanitization(el.tagName, attr)
            /\ ProtocolForURL(NormalizeTextValue(value)) \in BadProtocols
      THEN "unsafe:" \o NormalizeTextValue(value)
    ELSE NormalizeTextValue(value)

\* ------------------------------------------------------------------------
\* The change lists
\* ------------------------------------------------------------------------

ChangeLists ==
    {"PropertyChangeList", "AttributeChangeList", "InputValuePropertyChangeList",
     "SafeHrefPropertyChangeList", "SafeHrefAttributeChangeList"}

\* function defaultPropertyChangeLists(tagName, attr)
\* Mutant of IsUserInputValue: every form control with a value counts.
IsUserInputValueAnyControl(tagName, attribute) ==
    tagName \in {"INPUT", "TEXTAREA", "SELECT"} /\ attribute = "value"

IsUserInputValue(tagName, attribute) ==
    tagName \in {"INPUT", "TEXTAREA"} /\ attribute = "value"

DefaultPropertyChangeLists(tagName, attr) ==
    IF RequiresSanitization(tagName, attr) THEN "SafeHrefPropertyChangeList"
    ELSE IF IsUserInputValue(tagName, attr) THEN "InputValuePropertyChangeList"
    ELSE "PropertyChangeList"

\* function defaultAttributeChangeLists(tagName, attr)
DefaultAttributeChangeLists(tagName, attr) ==
    IF RequiresSanitization(tagName, attr) THEN "SafeHrefAttributeChangeList"
    ELSE "AttributeChangeList"

\* Mutant of IsSVG: the namespace of the element is not looked at.
IsSVGNever(el) == FALSE

\* element.namespaceURI === SVG_NAMESPACE
IsSVG(el) == el.namespaceURI = SVG_NAMESPACE

\* function defaultChangeLists(element, attr, isTrusting, namespace)
DefaultChangeLists(el, attr, isTrusting, namespace) ==
    IF IsSVG(el) THEN DefaultAttributeChangeLists(el.tagName, attr)
    ELSE IF NormalizeProperty(el, attr).type = "attr"
      THEN DefaultAttributeChangeLists(el.tagName, attr)
    ELSE DefaultPropertyChangeLists(el.tagName, attr)

\* PropertyChangeList.setAttribute
PropertyChangeListSetAttribute(el, attr, value, namespace) ==
    IF value # Null
      THEN <<PropertyWrite(ToLowerCase(attr), NormalizePropertyValue(value))>>
      ELSE <<>>

\* PropertyChangeList.updateAttribute
PropertyChangeListUpdateAttribute(el, attr, value, namespace) ==
    IF value = Null
      THEN <<PropertyWrite(ToLowerCase(attr), value)>>
      ELSE PropertyChangeListSetAttribute(el, attr, value, namespace)

\* AttributeChangeList.setAttribute
AttributeChangeListSetAttribute(el, attr, value, namespace) ==
    IF value # Null /\ value # Undefined
      THEN <<SetAttributeWrite(attr, NormalizeTextValue(value), namespace)>>
      ELSE <<>>

\* AttributeChangeList.updateAttribute: the removal uses the namespace, the
\* this.setAttribute(env, element, attr, value) call is made without it.
AttributeChangeListUpdateAttribute(el, attr, value, namespace) ==
    IF value = Null
      THEN IF namespace # NoNamespace
             THEN <<RemoveAttributeNSWrite(attr, namespace)>>
             ELSE <<RemoveAttributeWrite(attr)>>
      ELSE AttributeChangeListSetAttribute(el, attr, value, NoNamespace)

\* input.value
InputValue(el) ==
    IF "value" \in DOMAIN el.properties THEN el.properties["value"] ELSE Undefined

\* Mutant of InputValueWrite: the value is written whatever the input holds.
InputValueWriteAlways(el, value) ==
    <<PropertyWrite("value", NormalizeTextValue(value))>>

\* if (currentValue !== normalizedValue) input.value = normalizedValue
InputValueWrite(el, value) ==
    IF InputValue(el) # NormalizeTextValue(value)
      THEN <<PropertyWrite("value", NormalizeTextValue(value))>>
      ELSE <<>>

\* InputValuePropertyChangeList.setAttribute
InputValuePropertyChangeListSetAttribute(el, attr, value, namespace) ==
    InputValueWrite(el, value)

\* InputValuePropertyChangeList.updateAttribute
InputValuePropertyChangeListUpdateAttribute(el, attr, value, namespace) ==
    InputValueWrite(el, value)

\* SafeHrefPropertyChangeList.setAttribute
SafeHrefPropertyChangeListSetAttribute(el, attr, value, namespace) ==
    PropertyChangeListSetAttribute(el, attr, SanitizeAttributeValue(el, attr, value),
                                   NoNamespace)

\* SafeHrefPropertyChangeList.updateAttribute
SafeHrefPropertyChangeListUpdateAttribute(el, attr, value, namespace) ==
    SafeHrefPropertyChangeListSetAttribute(el, attr, value, NoNamespace)

\* Mutant of SafeHrefAttributeChangeListSetAttribute: the value is written as
\* it was given.
SafeHrefAttributeChangeListSetAttributeRaw(el, attr, value, namespace) ==
    AttributeChangeListSetAttribute(el, attr, value, NoNamespace)

\* SafeHrefAttributeChangeList.setAttribute
SafeHrefAttributeChangeListSetAttribute(el, attr, value, namespace) ==
    AttributeChangeListSetAttribute(el, attr, SanitizeAttributeValue(el, attr, value),
                                    NoNamespace)

\* SafeHrefAttributeChangeList.updateAttribute
SafeHrefAttributeChangeListUpdateAttribute(el, attr, value, namespace) ==
    SafeHrefAttributeChangeListSetAttribute(el, attr, value, NoNamespace)

\* changeList.setAttribute(env, element, attr, value, namespace)
SetAttribute(changeList, el, attr, value, namespace) ==
    CASE changeList = "PropertyChangeList" ->
           PropertyChangeListSetAttribute(el, attr, value, namespace)
      [] changeList = "AttributeChangeList" ->
           AttributeChangeListSetAttribute(el, attr, value, namespace)
      [] changeList = "InputValuePropertyChangeList" ->
           InputValuePropertyChangeListSetAttribute(el, attr, value, namespace)
      [] changeList = "SafeHrefPropertyChangeList" ->
           SafeHrefPropertyChangeListSetAttribute(el, attr, value, namespace)
      [] changeList = "SafeHrefAttributeChangeList" ->
           SafeHrefAttributeChangeListSetAttribute(el, attr, value, namespace)

\* changeList.updateAttribute(env, element, attr, value, namespace)
UpdateAttribute(changeList, el, attr, value, namespace) ==
    CASE changeList = "PropertyChangeList" ->
           PropertyChangeListUpdateAttribute(el, attr, value, namespace)
      [] changeList = "AttributeChangeList" ->
           AttributeChangeListUpdateAttribute(el, attr, value, namespace)
      [] changeList = "InputValuePropertyChangeList" ->
           InputValuePropertyChangeListUpdateAttribute(el, attr, value, namespace)
      [] changeList = "SafeHrefPropertyChangeList" ->
           SafeHrefPropertyChangeListUpdateAttribute(el, attr, value, namespace)
      [] changeList = "SafeHrefAttributeChangeList" ->
           SafeHrefAttributeChangeListUpdateAttribute(el, attr, value, namespace)

\* ------------------------------------------------------------------------
\* A dynamic attribute on an element
\* ------------------------------------------------------------------------

\* A call as the history records it.
Op(op, value, writes) ==
    [op |-> op, value |-> value, writes |-> writes,
     before |-> element, after |-> element']

HasBinding == binding # <<>>

\* setAttribute has been called for the dynamic attribute.
Flushed == \E k \in 1..Len(ops) : ops[k].op = "setAttribute"

\* Environment.attributeFor(element, attr, isTrusting, namespace): the change
\* list of a dynamic attribute is chosen when the attribute is compiled.
EnvAttributeFor(attr, isTrusting, namespace) ==
    /\ ~HasBinding
    /\ binding' = <<[attr |-> attr, namespace |-> namespace, isTrusting |-> isTrusting,
                     changeList |-> DefaultChangeLists(element, attr, isTrusting,
                                                       namespace)]>>
    /\ UNCHANGED <<element, ops>>

\* The initial render flushes the attribute: changeList.setAttribute
DynamicAttributeFlush(value) ==
    /\ HasBinding
    /\ ~Flushed
    /\ Len(ops) < MaxOps
    /\ LET writes == SetAttribute(binding[1].changeList, element, binding[1].attr,
                                  value, binding[1].namespace)
       IN  /\ element' = PerformAll(element, writes)
           /\ ops' = Append(ops, Op("setAttribute", value, writes))
    /\ UNCHANGED binding

\* A rerender updates the attribute: changeList.updateAttribute
DynamicAttributeUpdate(value) ==
    /\ HasBinding
    /\ Flushed
    /\ Len(ops) < MaxOps
    /\ LET writes == UpdateAttribute(binding[1].changeList, element, binding[1].attr,
                                     value, binding[1].namespace)
       IN  /\ element' = PerformAll(element, writes)
           /\ ops' = Append(ops, Op("updateAttribute", value, writes))
    /\ UNCHANGED binding

\* The user types into an input: its live value changes.
UserTypes(text) ==
    /\ IsUserInputValue(element.tagName, "value")
    /\ HasBinding
    /\ Len(ops) < MaxOps
    /\ element' = AssignProperty(element, "value", text)
    /\ ops' = Append(ops, Op("input", text, <<>>))
    /\ UNCHANGED binding

\* No dynamic attribute is being rendered.
DomIdle ==
    /\ element = <<>>
    /\ binding = <<>>
    /\ ops = <<>>

\* ------------------------------------------------------------------------
\* Tags, VersionedObject and the references of the test helpers
\* ------------------------------------------------------------------------

False == "<false>"

\* The number 0 as a value.
Zero == "<0>"

\* The values `parentValue && parentValue[key]` stops at.
Falsy == {Null, Undefined, False, "", Zero}

\* What reading a property of null or undefined raises.
TypeError == "<TypeError>"

\* A VersionedObject as a value.
ObjectValue(o) == "<VersionedObject " \o ToString(o) \o ">"

\* A plain object among the values of a context, and its properties.
Godfrey == "{ name: 'Godfrey', flag: 0 }"

PlainObjects == (Godfrey :> [name |-> "Godfrey", flag |-> Zero])

\* null and undefined: no value.
Absent == {Null, Undefined}

\* $REVISION of the reference library when the first tag is created.
InitialRevision == 1

\* DirtyableTag.create(): a tag at the current $REVISION.
DirtyableTagCreate == [revision |-> REVISION]

\* DirtyableTag.dirty(): this.revision = ++$REVISION.
DirtyableTagDirty(tag) == [tag EXCEPT !.revision = REVISION + 1]

\* tag.value()
TagValue(tag) == tag.revision

\* tag.validate(snapshot)
TagValidate(tag, snapshot) == TagValue(tag) = snapshot

\* The objects a test renders with, and the properties they are changed by.
PropertyNames == {"title"}

PropertyValues == {"hello"}

ObjectValues == {[title |-> ""]}

\* assign(this, value): the properties of value override those of this.
Assign(fields, value) == value @@ fields

\* A snapshot of an object is out of date once the object is mutated.
Outdated(o) ==
    [i \in DOMAIN observed |->
        IF observed[i].object = o
        THEN [observed[i] EXCEPT !.outdated = TRUE]
        ELSE observed[i]]

\* new VersionedObject(value)
VersionedObjectNew(value) ==
    /\ tags' = Append(tags, DirtyableTagCreate)
    /\ objects' = Append(objects, [tag |-> Len(tags) + 1, fields |-> value])
    /\ called' = [op |-> "other", object |-> 0]
    /\ UNCHANGED <<REVISION, references, observed>>

\* VersionedObject.dirty(): this.tag.inner.dirty()
VersionedObjectDirty(o) ==
    /\ tags' = [tags EXCEPT ![objects[o].tag] = DirtyableTagDirty(@)]
    /\ REVISION' = REVISION + 1
    /\ observed' = Outdated(o)
    /\ called' = [op |-> "dirty", object |-> o]
    /\ UNCHANGED <<objects, references>>

\* VersionedObject.set(key, value) without its call of dirty().
VersionedObjectSetSilent(o, key, value) ==
    /\ objects' = [objects EXCEPT ![o].fields = (key :> value) @@ @]
    /\ observed' = Outdated(o)
    /\ called' = [op |-> "set", object |-> o]
    /\ UNCHANGED <<REVISION, tags, references>>

\* VersionedObject.set(key, value): this[key] = value; this.dirty()
VersionedObjectSet(o, key, value) ==
    /\ objects' = [objects EXCEPT ![o].fields = (key :> value) @@ @]
    /\ tags' = [tags EXCEPT ![objects[o].tag] = DirtyableTagDirty(@)]
    /\ REVISION' = REVISION + 1
    /\ observed' = Outdated(o)
    /\ called' = [op |-> "set", object |-> o]
    /\ UNCHANGED references

\* VersionedObject.update(value) without its call of dirty().
VersionedObjectUpdateSilent(o, value) ==
    /\ objects' = [objects EXCEPT ![o].fields = Assign(@, value)]
    /\ observed' = Outdated(o)
    /\ called' = [op |-> "update", object |-> o]
    /\ UNCHANGED <<REVISION, tags, references>>

\* VersionedObject.update(value): assign(this, value); this.dirty()
VersionedObjectUpdate(o, value) ==
    /\ objects' = [objects EXCEPT ![o].fields = Assign(@, value)]
    /\ tags' = [tags EXCEPT ![objects[o].tag] = DirtyableTagDirty(@)]
    /\ REVISION' = REVISION + 1
    /\ observed' = Outdated(o)
    /\ called' = [op |-> "update", object |-> o]
    /\ UNCHANGED references

\* new SimpleRootReference(object): this.tag = object.tag
SimpleRootReference(o) ==
    [type |-> "root", object |-> o, tag |-> objects[o].tag]

\* new SimplePathReference(parent, key): this.tag = parent.tag
SimplePathReference(refs, parent, key) ==
    [type |-> "path", parent |-> parent, key |-> key, tag |-> refs[parent].tag]

\* A get(key) whose reference is given a tag of its own.
ReferenceGetOwnTag(r, key) ==
    /\ tags' = Append(tags, DirtyableTagCreate)
    /\ references' = Append(references,
                        [SimplePathReference(references, r, key) EXCEPT
                           !.tag = Len(tags) + 1])
    /\ called' = [op |-> "other", object |-> 0]
    /\ UNCHANGED <<REVISION, objects, observed>>

\* SimpleRootReference.get(key) and SimplePathReference.get(key)
ReferenceGet(r, key) ==
    /\ references' = Append(references, SimplePathReference(references, r, key))
    /\ called' = [op |-> "other", object |-> 0]
    /\ UNCHANGED <<REVISION, tags, objects, observed>>

\* The object at the root of a chain of references.
RECURSIVE RootOf(_, _)
RootOf(refs, r) ==
    IF refs[r].type = "root" THEN refs[r].object ELSE RootOf(refs, refs[r].parent)

\* The number of get(key) calls between a reference and its root.
RECURSIVE DepthOf(_, _)
DepthOf(refs, r) ==
    IF refs[r].type = "root" THEN 0 ELSE 1 + DepthOf(refs, refs[r].parent)

\* parentValue[this.key]: a property of an object, undefined where the
\* object has no such property and for the primitive values (none of the keys
\* of the model is a property of a string, a number or a boolean); reading a
\* property of null or undefined raises.
PropertyOf(objs, parentValue, key) ==
    IF parentValue \in Absent THEN TypeError
    ELSE IF \E o \in DOMAIN objs : parentValue = ObjectValue(o)
    THEN LET fields == objs[CHOOSE o \in DOMAIN objs : parentValue = ObjectValue(o)].fields
         IN  IF key \in DOMAIN fields THEN fields[key] ELSE Undefined
    ELSE IF parentValue \in DOMAIN PlainObjects /\ key \in DOMAIN PlainObjects[parentValue]
    THEN PlainObjects[parentValue][key]
    ELSE Undefined

\* A value() that reads parentValue[this.key] whatever the parent value is.
RECURSIVE ReferenceValueUnguarded(_, _, _)
ReferenceValueUnguarded(objs, refs, r) ==
    IF refs[r].type = "root" THEN ObjectValue(refs[r].object)
    ELSE PropertyOf(objs, ReferenceValueUnguarded(objs, refs, refs[r].parent),
                    refs[r].key)

\* A value() that keeps the value it returned last.
RECURSIVE ReferenceValueCached(_, _, _)
ReferenceValueCached(objs, refs, r) ==
    IF read.reference = r THEN read.value
    ELSE IF refs[r].type = "root" THEN ObjectValue(refs[r].object)
    ELSE LET parentValue == ReferenceValueCached(objs, refs, refs[r].parent)
         IN  IF parentValue \in Falsy THEN parentValue
             ELSE PropertyOf(objs, parentValue, refs[r].key)

\* SimpleRootReference.value() is the object itself; SimplePathReference.value()
\* is parentValue && parentValue[this.key].
RECURSIVE ReferenceValue(_, _, _)
ReferenceValue(objs, refs, r) ==
    IF refs[r].type = "root" THEN ObjectValue(refs[r].object)
    ELSE LET parentValue == ReferenceValue(objs, refs, refs[r].parent)
         IN  IF parentValue \in Falsy THEN parentValue
             ELSE PropertyOf(objs, parentValue, refs[r].key)

\* No value() call was made yet.
PathIdle == read = [reference |-> 0, value |-> Undefined]

\* reference.tag.value()
RevisionOf(refs, r) == TagValue(tags[refs[r].tag])

ReferenceRevision(r) == RevisionOf(references, r)

\* Remembering the revision a reference is at.
ReferenceObserve(r) ==
    /\ observed' = Append(observed,
                      [reference |-> r, object |-> RootOf(references, r),
                       revision |-> ReferenceRevision(r), outdated |-> FALSE])
    /\ called' = [op |-> "other", object |-> 0]
    /\ UNCHANGED <<REVISION, tags, objects, references>>

TagInit ==
    /\ REVISION = InitialRevision
    /\ tags = <<>>
    /\ objects = <<>>
    /\ references = <<>>
    /\ observed = <<>>
    /\ called = [op |-> "other", object |-> 0]

\* new SimpleRootReference(object)
ReferenceNewRoot(o) ==
    /\ references' = Append(references, SimpleRootReference(o))
    /\ called' = [op |-> "other", object |-> 0]
    /\ UNCHANGED <<REVISION, tags, objects, observed>>

\* ------------------------------------------------------------------------
\* Serialized markers: content(list) of the rehydration tests
\* ------------------------------------------------------------------------

OPEN == [type |-> "object", marker |-> "open-block"]

CLOSE == [type |-> "object", marker |-> "close-block"]

SEP == [type |-> "object", marker |-> "sep"]

EMPTY == [type |-> "object", marker |-> "empty"]

\* typeof item === 'string'
String(value) == [type |-> "string", value |-> value]

\* Content = string | typeof OPEN | typeof CLOSE | typeof SEP | typeof EMPTY
Contents == {String("hello"), OPEN, CLOSE, SEP, EMPTY}

\* The lists of at most n items.
ContentLists(n) == UNION {[1..k -> Contents] : k \in 0..n}

\* `<!--%+block:${depth}%-->`
OpenBlockMarker(d) == "<!--%+block:" \o ToString(d) \o "%-->"

\* `<!--%-block:${depth}%-->`
CloseBlockMarker(d) == "<!--%-block:" \o ToString(d) \o "%-->"

\* `<!--%${item.marker}%-->`
OtherMarker(item) == "<!--%" \o item.marker \o "%-->"

\* The callback of list.forEach with a close-block marker that carries the
\* depth before decrementing it (depth-- in place of --depth).
ContentItemPostDecrement(state, item) ==
    IF item.type = "string"
    THEN [state EXCEPT !.out = Append(@, item.value)]
    ELSE IF item.marker = "open-block"
    THEN [out |-> Append(state.out, OpenBlockMarker(state.depth)),
          depth |-> state.depth + 1]
    ELSE IF item.marker = "close-block"
    THEN [out |-> Append(state.out, CloseBlockMarker(state.depth)),
          depth |-> state.depth - 1]
    ELSE [state EXCEPT !.out = Append(@, OtherMarker(item))]

\* The callback of list.forEach in content(): state is [out, depth].
ContentItem(state, item) ==
    IF item.type = "string"
    THEN [state EXCEPT !.out = Append(@, item.value)]
    ELSE IF item.marker = "open-block"
    THEN [out |-> Append(state.out, OpenBlockMarker(state.depth)),
          depth |-> state.depth + 1]
    ELSE IF item.marker = "close-block"
    THEN [out |-> Append(state.out, CloseBlockMarker(state.depth - 1)),
          depth |-> state.depth - 1]
    ELSE [state EXCEPT !.out = Append(@, OtherMarker(item))]

\* out.join('')
RECURSIVE Join(_)
Join(strings) ==
    IF strings = <<>> THEN "" ELSE Head(strings) \o Join(Tail(strings))

\* content(list): let out = []; let depth = 0
ContentCall(caller, items) ==
    /\ list' = items
    /\ out' = <<>>
    /\ depth' = 0
    /\ returned' = <<>>
    /\ by' = caller

\* list.forEach(item => ...): the next item
ContentForEach ==
    /\ by # "none"
    /\ returned = <<>>
    /\ Len(out) < Len(list)
    /\ LET state == ContentItem([out |-> out, depth |-> depth], list[Len(out) + 1])
       IN  /\ out' = state.out
           /\ depth' = state.depth
    /\ UNCHANGED <<list, returned, by>>

\* return out.join('')
ContentReturn ==
    /\ by # "none"
    /\ returned = <<>>
    /\ Len(out) = Len(list)
    /\ returned' = <<Join(out)>>
    /\ UNCHANGED <<list, out, depth, by>>

\* Rehydration.assertServerOutput(..._expected):
\* content([OPEN, ..._expected, CLOSE])
AssertServerOutputCall(expected) ==
    ContentCall("assertServerOutput", <<OPEN>> \o expected \o <<CLOSE>>)

ContentIdle ==
    /\ list = <<>>
    /\ out = <<>>
    /\ depth = 0
    /\ returned = <<>>
    /\ by = "none"

\* ------------------------------------------------------------------------
\* The document tree (host)
\* ------------------------------------------------------------------------

\* Body applied to a value that is computed once: the steps of a pass follow
\* one another, each on the outcome of the one before.
Bind(value, Body(_)) == CHOOSE r \in {Body(x) : x \in {value}} : TRUE

\* null where a node is expected: firstChild, nextSibling, parentNode.
NoNode == 0

\* A node of the document. Nodes are held by identity: the id of a node is
\* its place in the sequence of all nodes created, and is never given again.
ElementNode(tagName) ==
    [nodeType |-> "element", tagName |-> tagName, namespaceURI |-> HTML_NAMESPACE,
     properties |-> [name \in {} |-> ""], attributes |-> {},
     nodeValue |-> Null, parentNode |-> NoNode, childNodes |-> <<>>]

CharacterData(nodeType, data) ==
    [nodeType |-> nodeType, tagName |-> Null, namespaceURI |-> Null,
     properties |-> [name \in {} |-> ""], attributes |-> {},
     nodeValue |-> data, parentNode |-> NoNode, childNodes |-> <<>>]

TextNode(data) == CharacterData("text", data)

CommentNode(data) == CharacterData("comment", data)

\* The place of x in a sequence that holds it once.
IndexOf(seq, x) == CHOOSE i \in DOMAIN seq : seq[i] = x

Without(seq, x) == SelectSeq(seq, LAMBDA y : y # x)

InsertInto(seq, x, before) ==
    IF before = NoNode THEN Append(seq, x)
    ELSE LET i == IndexOf(seq, before)
         IN  SubSeq(seq, 1, i - 1) \o <<x>> \o SubSeq(seq, i, Len(seq))

\* node.firstChild, node.nextSibling
FirstChild(nodes, n) ==
    IF nodes[n].childNodes = <<>> THEN NoNode ELSE nodes[n].childNodes[1]

NextSibling(nodes, n) ==
    IF nodes[n].parentNode = NoNode THEN NoNode
    ELSE LET siblings == nodes[nodes[n].parentNode].childNodes
             i == IndexOf(siblings, n)
         IN  IF i = Len(siblings) THEN NoNode ELSE siblings[i + 1]

\* A machine is the state a render pass works on: the nodes, the references
\* created so far, and history: the number of writes to the tree in the pass.
\* A node out of its parent.
Detached(nodes, n) ==
    IF nodes[n].parentNode = NoNode THEN nodes
    ELSE [nodes EXCEPT ![nodes[n].parentNode].childNodes = Without(@, n),
                       ![n].parentNode = NoNode]

\* document.createElement / createTextNode / createComment
HostCreate(m, node) == [m EXCEPT !.nodes = Append(@, node)]

\* parent.insertBefore(node, reference)
HostInsertBefore(m, parent, n, before) ==
    LET detached == Detached(m.nodes, n)
    IN  [m EXCEPT !.nodes = [detached EXCEPT ![parent].childNodes = InsertInto(@, n, before),
                                             ![n].parentNode = parent],
                  !.writes = @ + 1]

\* parent.removeChild(node)
HostRemove(m, n) ==
    [m EXCEPT !.nodes = Detached(@, n), !.writes = @ + 1]

\* node.nodeValue = data
HostSetNodeValue(m, n, data) ==
    [m EXCEPT !.nodes[n].nodeValue = data, !.writes = @ + 1]

\* The writes of a change list performed on an element of the tree.
HostPerform(m, n, writes) ==
    [m EXCEPT !.nodes[n] = PerformAll(@, writes), !.writes = @ + Len(writes)]

\* ------------------------------------------------------------------------
\* Snapshots of the test harness
\* ------------------------------------------------------------------------

\* The comments a serializing render writes: their nodeValue starts with '%'.
ServerMarkers ==
    {"%+block:0%", "%-block:0%", "%+block:1%", "%-block:1%",
     "%+block:2%", "%-block:2%", "%sep%", "%empty%"}

\* isServerMarker(node)
IsServerMarker(node) ==
    node.nodeType = "comment" /\ node.nodeValue \in ServerMarkers

\* The items of a NodesSnapshot: a Node, 'up' or 'down'.
NodeItem(n) == [item |-> "node", node |-> n]

Up == [item |-> "up", node |-> NoNode]

Down == [item |-> "down", node |-> NoNode]

\* RenderTest.takeSnapshot: the while loop, from the state it is in.
RECURSIVE TakeSnapshotLoop(_, _, _, _, _)
TakeSnapshotLoop(nodes, root, node, upped, snapshot) ==
    IF node = NoNode \/ node = root THEN snapshot
    ELSE Bind(<<FirstChild(nodes, node), NextSibling(nodes, node),
                nodes[node].parentNode>>,
              LAMBDA to :
      IF upped
      THEN IF to[2] # NoNode
           THEN TakeSnapshotLoop(nodes, root, to[2], FALSE, snapshot)
           ELSE Bind(Append(snapshot, Up),
                     LAMBDA pushed : TakeSnapshotLoop(nodes, root, to[3], TRUE, pushed))
      ELSE Bind(IF ~IsServerMarker(nodes[node])
                THEN Append(snapshot, NodeItem(node)) ELSE snapshot,
                LAMBDA pushed :
             IF to[1] # NoNode
             THEN Bind(Append(pushed, Down),
                       LAMBDA down : TakeSnapshotLoop(nodes, root, to[1], FALSE, down))
             ELSE IF to[2] # NoNode
             THEN TakeSnapshotLoop(nodes, root, to[2], FALSE, pushed)
             ELSE Bind(Append(pushed, Up),
                       LAMBDA up : TakeSnapshotLoop(nodes, root, to[3], TRUE, up))))

\* RenderTest.takeSnapshot
TakeSnapshot(nodes, root) ==
    Bind(FirstChild(nodes, root),
         LAMBDA first : TakeSnapshotLoop(nodes, root, first, FALSE, <<>>))

\* SnapshotIterator: [snapshot, depth, pos], pos counted from 0.
SnapshotIterator(snapshot) == [snapshot |-> snapshot, depth |-> 0, pos |-> 0]

NoItem == [item |-> "null", node |-> NoNode]

\* snapshot[pos]: undefined past the end.
ItemAt(it) ==
    IF it.pos < Len(it.snapshot) THEN it.snapshot[it.pos + 1] ELSE NoItem

\* SnapshotIterator.peek
Peek(it) == ItemAt(it)

\* SnapshotIterator.nextNode: the iterator after the call.
NextNode(it) ==
    LET token == ItemAt(it)
    IN  [it EXCEPT !.pos = @ + 1,
                   !.depth = IF token = Down THEN @ + 1
                             ELSE IF token = Up THEN @ - 1 ELSE @]

\* SnapshotIterator.next: the iterator after the call; it returns ItemAt.
IteratorNext(it) == IF it.pos >= Len(it.snapshot) THEN it ELSE NextNode(it)

\* do { this.nextNode(); } while (this.depth !== skipUntil)
RECURSIVE SkipLoop(_, _)
SkipLoop(it, skipUntil) ==
    Bind(NextNode(it),
         LAMBDA after : IF after.depth # skipUntil THEN SkipLoop(after, skipUntil)
                        ELSE after)

\* A skip() that passes over the node and not over what is below it.
IteratorSkipNode(it) == NextNode(it)

\* SnapshotIterator.skip
IteratorSkip(it) ==
    Bind(NextNode(it),
         LAMBDA after : IF ItemAt(after) = Down THEN SkipLoop(after, it.depth)
                        ELSE after)

\* normalize(oldSnapshot, newSnapshot, except): the while loop, from the
\* state it is in: the two iterators and the two normalized snapshots.
RECURSIVE NormalizeLoop(_, _)
NormalizeLoop(s, except) ==
    LET nextOld == Peek(s.oldIterator)
        nextNew == Peek(s.newIterator)
    IN  IF nextOld = NoItem /\ nextNew = NoItem
        THEN [oldSnapshot |-> s.normalizedOld, newSnapshot |-> s.normalizedNew]
        ELSE IF \/ nextOld.item = "node" /\ nextOld.node \in except
                \/ nextNew.item = "node" /\ nextNew.node \in except
        THEN Bind([s EXCEPT !.oldIterator = IteratorSkip(@),
                            !.newIterator = IteratorSkip(@)],
                  LAMBDA skipped : NormalizeLoop(skipped, except))
        ELSE Bind([oldIterator |-> IteratorNext(s.oldIterator),
                   newIterator |-> IteratorNext(s.newIterator),
                   normalizedOld |-> Append(s.normalizedOld, nextOld),
                   normalizedNew |-> Append(s.normalizedNew, nextNew)],
                  LAMBDA pushed : NormalizeLoop(pushed, except))

\* normalize(oldSnapshot, newSnapshot, except)
Normalize(oldSnapshot, newSnapshot, except) ==
    NormalizeLoop([oldIterator |-> SnapshotIterator(oldSnapshot),
                   newIterator |-> SnapshotIterator(newSnapshot),
                   normalizedOld |-> <<>>, normalizedNew |-> <<>>], except)

\* RenderTest.assertStableNodes({ except }): the assertion passes.
StableNodes(oldSnapshot, newSnapshot, except) ==
    Bind(Normalize(oldSnapshot, newSnapshot, except),
         LAMBDA n : /\ Len(n.oldSnapshot) = Len(n.newSnapshot)
                    /\ \A i \in DOMAIN n.oldSnapshot :
                          n.oldSnapshot[i] = n.newSnapshot[i])

\* ------------------------------------------------------------------------
\* Templates
\* ------------------------------------------------------------------------

\* {{key}} of the context, and {{p.key}} of the item of an {{#each}} block.
Self(key) == [from |-> "self", key |-> key]

Item(key) == [from |-> "item", key |-> key]

\* The statements of a compiled template.
Text(value) == [type |-> "text", value |-> value]

Curly(expr) == [type |-> "append", expr |-> expr]

StaticAttr(name, value) == [name |-> name, dynamic |-> FALSE, value |-> value]

DynamicAttr(name, expr) == [name |-> name, dynamic |-> TRUE, value |-> expr]

Element(tagName, attrs, body) ==
    [type |-> "element", tagName |-> tagName, attrs |-> attrs, body |-> body]

If(expr, body, inverse) ==
    [type |-> "if", expr |-> expr, body |-> body, inverse |-> inverse]

Each(expr, key, body) ==
    [type |-> "each", expr |-> expr, key |-> key, body |-> body]

\* <div>{{title}}<span>{{title}}</span></div>
TextCurlies ==
    <<Element("div", <<>>,
        <<Curly(Self("title")), Element("span", <<>>, <<Curly(Self("title"))>>)>>)>>

\* <div foo='{{funstuff}}' name='Alice'></div>
AttributeExpression ==
    <<Element("div", <<DynamicAttr("foo", Self("funstuff")),
                       StaticAttr("name", "Alice")>>, <<>>)>>

\* <div>{{#if admin}}<p>{{user}}</p>{{/if}}!</div>
SimpleBlocks ==
    <<Element("div", <<>>,
        <<If(Self("admin"), <<Element("p", <<>>, <<Curly(Self("user"))>>)>>, <<>>),
          Text("!")>>)>>

\* <div>{{#if admin}}{{#if access}}<p>{{user}}</p>{{/if}}{{/if}}!</div>
NestedBlocks ==
    <<Element("div", <<>>,
        <<If(Self("admin"),
             <<If(Self("access"),
                  <<Element("p", <<>>, <<Curly(Self("user"))>>)>>, <<>>)>>, <<>>),
          Text("!")>>)>>


\* The template of Loops with its items keyed by name.
LoopsKeyedByName ==
    <<Element("div", <<>>,
        <<Each(Self("people"), "name",
               <<Element("span", <<>>, <<Curly(Item("handle"))>>), Text(" - "),
                 Curly(Item("name"))>>)>>)>>

\* <div>{{#each people key="handle" as |p|}}<span>{{p.handle}}</span> - {{p.name}}{{/each}}</div>
Loops ==
    <<Element("div", <<>>,
        <<Each(Self("people"), "handle",
               <<Element("span", <<>>, <<Curly(Item("handle"))>>), Text(" - "),
                 Curly(Item("name"))>>)>>)>>

\* {{content}}
MismatchedText == <<Curly(Self("content"))>>

\* {{content}} world
MismatchedTextEmpty == <<Curly(Self("content")), Text(" world")>>

\* {{#if admin}}<div>hi admin</div>{{else}}<p>HAXOR</p>{{/if}}
MismatchedElements ==
    <<If(Self("admin"), <<Element("div", <<>>, <<Text("hi admin")>>)>>,
         <<Element("p", <<>>, <<Text("HAXOR")>>)>>)>>

\* {{#if admin}}<div>hi admin</div>{{else}}<div>HAXOR{{stopHaxing}}</div>{{/if}}
ExtraNodes ==
    <<If(Self("admin"), <<Element("div", <<>>, <<Text("hi admin")>>)>>,
         <<Element("div", <<>>, <<Text("HAXOR"), Curly(Self("stopHaxing"))>>)>>)>>

\* ------------------------------------------------------------------------
\* The evaluation VM: initial render
\* ------------------------------------------------------------------------

Last(seq) == seq[Len(seq)]

\* The state a pass works on: the nodes, the references created so far, and
\* history: the number of writes the pass made to the tree.
Machine(nodes, refs) == [nodes |-> nodes, references |-> refs, writes |-> 0]

\* The scope of a statement list: the self reference, and inside an
\* {{#each}} block the item and the reference of its list.
RootScope(self) == [self |-> self, item |-> Null, list |-> self]

\* The reference a binding is wired to: self.get(key), or for {{p.key}} a
\* reference derived from the reference of the list.
WithReference(m, scope, expr) ==
    [m EXCEPT !.references =
        Append(@, SimplePathReference(@, IF expr.from = "self" THEN scope.self
                                         ELSE scope.list, expr.key))]

\* reference.value() of a binding.
ExprValue(refs, reference, expr, item) ==
    IF expr.from = "self" THEN ReferenceValue(objects, refs, reference)
    ELSE item[expr.key]

\* A value that selects the main branch of {{#if}}.
Truthy(value) == value \notin Falsy

\* What a binding remembers whatever its kind: the reference, the revision
\* last observed, and where the value comes from.
Remembered(type, m, r, expr, scope) ==
    [type |-> type, reference |-> r, revision |-> RevisionOf(m.references, r),
     expr |-> expr, item |-> scope.item]

\* An attribute of an element being built: a static attribute is set, a
\* dynamic one is wired to a reference and flushed through its change list.
RenderAttribute(m, attr, scope, n) ==
    IF ~attr.dynamic
    THEN [m |-> [m EXCEPT !.nodes[n] =
                    HostSetAttribute(@, attr.name, attr.value, NoNamespace)],
          bindings |-> <<>>]
    ELSE LET r == Len(m.references) + 1
             changeList == DefaultChangeLists(m.nodes[n], attr.name, FALSE, NoNamespace)
         IN  Bind(WithReference(m, scope, attr.value), LAMBDA wired :
               [m |-> HostPerform(wired, n,
                         SetAttribute(changeList, wired.nodes[n], attr.name,
                                      ExprValue(wired.references, r, attr.value,
                                                scope.item),
                                      NoNamespace)),
                bindings |->
                  <<Remembered("attr", wired, r, attr.value, scope)
                      @@ [node |-> n, attr |-> attr.name, changeList |-> changeList]>>])

RECURSIVE RenderAttributes(_, _, _, _)
RenderAttributes(m, attrs, scope, n) ==
    IF attrs = <<>> THEN [m |-> m, bindings |-> <<>>]
    ELSE Bind(RenderAttribute(m, Head(attrs), scope, n), LAMBDA first :
         Bind(RenderAttributes(first.m, Tail(attrs), scope, n), LAMBDA rest :
           [m |-> rest.m, bindings |-> first.bindings \o rest.bindings]))

\* The marker of a block that rendered no node: an empty comment.
WithMarker(built, parent, before) ==
    IF built.bounds # <<>> THEN built
    ELSE LET n == Len(built.m.nodes) + 1
         IN  [built EXCEPT
                !.m = HostInsertBefore(HostCreate(@, CommentNode("")), parent, n, before),
                !.bounds = <<n>>]

\* The nodes of the entries of an {{#each}} block, in order.
RECURSIVE Flatten(_)
Flatten(entries) ==
    IF entries = <<>> THEN <<>> ELSE Head(entries).bounds \o Flatten(Tail(entries))

RECURSIVE RenderStatements(_, _, _, _, _)
RECURSIVE RenderStatement(_, _, _, _, _)
RECURSIVE RenderItems(_, _, _, _, _, _)

\* A statement list rendered into parent before a node: the machine after
\* it, the bindings remembered, and the nodes put into parent (the bounds).
RenderStatements(m, stmts, scope, parent, before) ==
    IF stmts = <<>> THEN [m |-> m, bindings |-> <<>>, bounds |-> <<>>]
    ELSE Bind(RenderStatement(m, Head(stmts), scope, parent, before), LAMBDA first :
         Bind(RenderStatements(first.m, Tail(stmts), scope, parent, before), LAMBDA rest :
           [m |-> rest.m, bindings |-> first.bindings \o rest.bindings,
            bounds |-> first.bounds \o rest.bounds]))

\* The items of an {{#each}} block, each rendered with the item in scope.
RenderItems(m, stmt, items, scope, parent, before) ==
    IF items = <<>> THEN [m |-> m, entries |-> <<>>]
    ELSE Bind(RenderStatements(m, stmt.body, [scope EXCEPT !.item = Head(items)],
                               parent, before), LAMBDA first :
         Bind(RenderItems(first.m, stmt, Tail(items), scope, parent, before),
              LAMBDA rest :
           [m |-> rest.m,
            entries |-> <<[key |-> Head(items)[stmt.key], children |-> first.bindings,
                           bounds |-> first.bounds]>> \o rest.entries]))

\* A block rendered: what an {{#if}} or {{#each}} binding remembers besides
\* its reference.
Block(type, m, r, stmt, scope, parent) ==
    Remembered(type, m, r, stmt.expr, scope)
       @@ [stmt |-> stmt, scope |-> scope, parent |-> parent]

RenderStatement(m, stmt, scope, parent, before) ==
    LET n == Len(m.nodes) + 1
        r == Len(m.references) + 1
    IN  CASE stmt.type = "text" ->
               [m |-> HostInsertBefore(HostCreate(m, TextNode(stmt.value)), parent, n,
                                       before),
                bindings |-> <<>>, bounds |-> <<n>>]
          [] stmt.type = "append" ->
               Bind(WithReference(m, scope, stmt.expr), LAMBDA wired :
               Bind(NormalizeTextValue(
                       ExprValue(wired.references, r, stmt.expr, scope.item)),
                    LAMBDA value :
                 [m |-> HostInsertBefore(HostCreate(wired, TextNode(value)), parent, n,
                                         before),
                  bindings |-> <<Remembered("text", wired, r, stmt.expr, scope)
                                   @@ [node |-> n, value |-> value]>>,
                  bounds |-> <<n>>]))
          [] stmt.type = "element" ->
               Bind(HostCreate(m, ElementNode(stmt.tagName)), LAMBDA created :
               Bind(RenderAttributes(created, stmt.attrs, scope, n), LAMBDA attrs :
               Bind(RenderStatements(attrs.m, stmt.body, scope, n, NoNode), LAMBDA body :
                 [m |-> HostInsertBefore(body.m, parent, n, before),
                  bindings |-> attrs.bindings \o body.bindings,
                  bounds |-> <<n>>])))
          [] stmt.type = "if" ->
               Bind(WithReference(m, scope, stmt.expr), LAMBDA wired :
               Bind(Truthy(ExprValue(wired.references, r, stmt.expr, scope.item)),
                    LAMBDA truthy :
               Bind(RenderStatements(wired, IF truthy THEN stmt.body ELSE stmt.inverse,
                                     scope, parent, before), LAMBDA built :
               Bind(WithMarker(built, parent, before), LAMBDA branch :
                 [m |-> branch.m,
                  bindings |->
                    <<Block("if", wired, r, stmt, scope, parent)
                        @@ [truthy |-> truthy, children |-> branch.bindings,
                            bounds |-> branch.bounds]>>,
                  bounds |-> branch.bounds]))))
          [] stmt.type = "each" ->
               Bind(WithReference(m, scope, stmt.expr), LAMBDA wired :
               Bind(RenderItems(wired, stmt,
                                ExprValue(wired.references, r, stmt.expr, scope.item),
                                [scope EXCEPT !.list = r], parent, before),
                    LAMBDA built :
               Bind(WithMarker([m |-> built.m, bounds |-> Flatten(built.entries)],
                               parent, before), LAMBDA marked :
                 [m |-> marked.m,
                  bindings |->
                    <<Block("each", wired, r, stmt, [scope EXCEPT !.list = r], parent)
                        @@ [entries |-> built.entries,
                            marker |-> IF built.entries = <<>> THEN marked.bounds[1]
                                       ELSE NoNode]>>,
                  bounds |-> marked.bounds])))

\* ------------------------------------------------------------------------
\* The evaluation VM: RenderResult.rerender()
\* ------------------------------------------------------------------------

\* The nodes of a torn-down branch leave the tree.
RECURSIVE RemoveAll(_, _)
RemoveAll(m, bounds) ==
    IF bounds = <<>> THEN m
    ELSE Bind(HostRemove(m, Head(bounds)),
              LAMBDA removed : RemoveAll(removed, Tail(bounds)))

\* Nodes moved, in order, before a node of the same parent.
RECURSIVE MoveAll(_, _, _, _)
MoveAll(m, bounds, parent, before) ==
    IF bounds = <<>> THEN m
    ELSE Bind(HostInsertBefore(m, parent, Head(bounds), before),
              LAMBDA moved : MoveAll(moved, Tail(bounds), parent, before))

\* The entry of a key among the entries of an {{#each}} block.
HasKey(entries, key) == \E i \in DOMAIN entries : entries[i].key = key

EntryOf(entries, key) == entries[CHOOSE i \in DOMAIN entries : entries[i].key = key]

ItemKeys(items, key) == {items[i][key] : i \in DOMAIN items}

\* The nodes a block binding stands for in its parent.
BoundsOf(b) ==
    IF b.type = "if" THEN b.bounds
    ELSE IF b.entries = <<>> THEN <<b.marker>> ELSE Flatten(b.entries)

IsBlock(b) == b.type \in {"if", "each"}

\* The bounds of a statement list after its bindings were updated: where a
\* block directly in the list changed its nodes, the new ones take the place
\* of the old ones.
RECURSIVE Rebound(_, _, _, _)
Rebound(bounds, old, new, parent) ==
    IF old = <<>> THEN bounds
    ELSE LET was == BoundsOf(Head(old))
             i == IndexOf(bounds, was[1])
         IN  Bind(IF IsBlock(Head(old)) /\ Head(old).parent = parent
                     /\ was # BoundsOf(Head(new))
                  THEN SubSeq(bounds, 1, i - 1) \o BoundsOf(Head(new))
                          \o SubSeq(bounds, i + Len(was), Len(bounds))
                  ELSE bounds,
                  LAMBDA first : Rebound(first, Tail(old), Tail(new), parent))

RECURSIVE UpdateBindings(_, _, _)
RECURSIVE UpdateBinding(_, _, _)
RECURSIVE UpdateItems(_, _, _, _, _)

\* Every remembered binding of a list, in order: the machine after it and
\* the bindings as remembered for the next pass.
UpdateBindings(m, bindings, item) ==
    IF bindings = <<>> THEN [m |-> m, bindings |-> <<>>]
    ELSE Bind(UpdateBinding(m, Head(bindings), item), LAMBDA first :
         Bind(UpdateBindings(first.m, Tail(bindings), item), LAMBDA rest :
           [m |-> rest.m, bindings |-> <<first.binding>> \o rest.bindings]))

\* The bindings of a kept or swapped block, updated or rendered, as the
\* block remembers them: its children and its bounds.
Kept(m, b, children, bounds, item) ==
    Bind(UpdateBindings(m, children, item), LAMBDA updated :
      [m |-> updated.m, children |-> updated.bindings,
       bounds |-> Rebound(bounds, children, updated.bindings, b.parent)])

\* The items of the new list of an {{#each}} block, in order. pending holds
\* the kept entries not yet passed, in tree order; end is the node after the
\* block. An item whose key was rendered keeps its nodes: they stay where
\* they are when they come next in the tree, and are moved otherwise; an
\* item with a new key is rendered afresh.
UpdateItems(m, b, items, pending, end) ==
    IF items = <<>> THEN [m |-> m, entries |-> <<>>]
    ELSE LET item == Head(items)
             key == item[b.stmt.key]
             cursor == IF pending = <<>> THEN end ELSE pending[1].bounds[1]
             entry == EntryOf(pending, key)
         IN  Bind(IF HasKey(pending, key)
                  THEN Bind(IF pending[1].key = key THEN m
                            ELSE MoveAll(m, entry.bounds, b.parent, cursor),
                            LAMBDA placed :
                              Kept(placed, b, entry.children, entry.bounds, item))
                  ELSE Bind(RenderStatements(m, b.stmt.body,
                                             [b.scope EXCEPT !.item = item],
                                             b.parent, cursor),
                            LAMBDA built :
                              [m |-> built.m, children |-> built.bindings,
                               bounds |-> built.bounds]),
                  LAMBDA first :
             Bind(UpdateItems(first.m, b, Tail(items),
                              SelectSeq(pending, LAMBDA e : e.key # key), end),
                  LAMBDA rest :
               [m |-> rest.m,
                entries |-> <<[key |-> key, children |-> first.children,
                               bounds |-> first.bounds]>> \o rest.entries]))

\* The text binding's update strategy: the node is written when the
\* normalized value is not the one it holds.
UpdateText(m, b, value) ==
    [m |-> IF value = b.value THEN m ELSE HostSetNodeValue(m, b.node, value),
     binding |-> [b EXCEPT !.value = value]]

\* The attribute binding's update strategy: changeList.updateAttribute
UpdateDynamicAttribute(m, b, value) ==
    [m |-> HostPerform(m, b.node,
              UpdateAttribute(b.changeList, m.nodes[b.node], b.attr, value,
                              NoNamespace)),
     binding |-> b]

\* An {{#if}} binding: the branch is kept and its bindings updated while the
\* value selects it; otherwise its nodes are torn down and the other branch
\* is rendered afresh in their place.
UpdateIf(m, b, value, item) ==
    IF Truthy(value) = b.truthy
    THEN Bind(Kept(m, b, b.children, b.bounds, item), LAMBDA kept :
           [m |-> kept.m,
            binding |-> [b EXCEPT !.children = kept.children,
                                  !.bounds = kept.bounds]])
    ELSE LET end == NextSibling(m.nodes, Last(b.bounds))
         IN  Bind(RemoveAll(m, b.bounds), LAMBDA removed :
             Bind(RenderStatements(removed,
                                   IF Truthy(value) THEN b.stmt.body
                                   ELSE b.stmt.inverse,
                                   [b.scope EXCEPT !.item = b.item], b.parent, end),
                  LAMBDA built :
             Bind(WithMarker(built, b.parent, end), LAMBDA branch :
               [m |-> branch.m,
                binding |-> [b EXCEPT !.truthy = Truthy(value),
                                      !.children = branch.bindings,
                                      !.bounds = branch.bounds]])))

\* An {{#each}} binding: the entries of the keys that left the list are
\* torn down, then the items of the new list are placed in order.
UpdateEach(m, b, items) ==
    IF b.entries = <<>> /\ items = <<>> THEN [m |-> m, binding |-> b]
    ELSE LET end == NextSibling(m.nodes, Last(BoundsOf(b)))
             keys == ItemKeys(items, b.stmt.key)
             kept == SelectSeq(b.entries, LAMBDA e : e.key \in keys)
             left == SelectSeq(b.entries, LAMBDA e : e.key \notin keys)
         IN  Bind(IF b.entries = <<>> THEN HostRemove(m, b.marker)
                  ELSE RemoveAll(m, Flatten(left)), LAMBDA cleared :
             Bind(UpdateItems(cleared, b, items, kept, end), LAMBDA updated :
             Bind(WithMarker([m |-> updated.m, bounds |-> Flatten(updated.entries)],
                             b.parent, end), LAMBDA marked :
               [m |-> marked.m,
                binding |-> [b EXCEPT !.entries = updated.entries,
                                      !.marker = IF updated.entries = <<>>
                                                 THEN marked.bounds[1] ELSE NoNode]])))

\* One remembered binding. A binding whose reference is at the revision last
\* observed is skipped; otherwise its update strategy runs and the revision
\* observed is refreshed.
UpdateBinding(m, remembered, item) ==
    LET b == IF remembered.expr.from = "item" THEN [remembered EXCEPT !.item = item]
             ELSE remembered
        revision == RevisionOf(m.references, b.reference)
    IN  IF revision = remembered.revision THEN [m |-> m, binding |-> remembered]
        ELSE Bind(ExprValue(m.references, b.reference, b.expr, b.item), LAMBDA value :
             Bind(CASE b.type = "text" -> UpdateText(m, b, NormalizeTextValue(value))
                    [] b.type = "attr" -> UpdateDynamicAttribute(m, b, value)
                    [] b.type = "if" -> UpdateIf(m, b, value, item)
                    [] b.type = "each" -> UpdateEach(m, b, value),
                  LAMBDA updated :
                    [updated EXCEPT !.binding.revision = revision]))

\* ------------------------------------------------------------------------
\* The evaluation VM: mode 'serialize'
\* ------------------------------------------------------------------------

\* The values of the marker comments: %+block:<depth>%, %-block:<depth>%,
\* %sep%, %empty%.
BlockOpen(d) == "%+block:" \o ToString(d) \o "%"

BlockClose(d) == "%-block:" \o ToString(d) \o "%"

Separator == "%sep%"

EmptyText == "%empty%"

IsComment(nodes, n, data) ==
    n # NoNode /\ nodes[n].nodeType = "comment" /\ nodes[n].nodeValue = data

IsText(nodes, n) == n # NoNode /\ nodes[n].nodeType = "text"

\* A node created and put into parent before a node: the machine after it;
\* the node is the last one of its nodes.
Emit(m, node, parent, before) ==
    HostInsertBefore(HostCreate(m, node), parent, Len(m.nodes) + 1, before)

\* A text of the output: an empty text is written as the empty marker, and
\* a text that follows a text node is set apart from it by a separator.
SerializeText(m, value, parent) ==
    IF value = "" THEN Emit(m, CommentNode(EmptyText), parent, NoNode)
    ELSE Bind(IF m.nodes[parent].childNodes # <<>>
                 /\ IsText(m.nodes, Last(m.nodes[parent].childNodes))
              THEN Emit(m, CommentNode(Separator), parent, NoNode)
              ELSE m,
              LAMBDA apart : Emit(apart, TextNode(value), parent, NoNode))

RECURSIVE SerializeStatements(_, _, _, _, _)
RECURSIVE SerializeStatement(_, _, _, _, _)

\* A statement list written at the end of parent, depth blocks deep: the
\* machine after it.
SerializeStatements(m, stmts, scope, parent, d) ==
    IF stmts = <<>> THEN m
    ELSE Bind(SerializeStatement(m, Head(stmts), scope, parent, d),
              LAMBDA first : SerializeStatements(first, Tail(stmts), scope, parent, d))

\* A block: its statements between an open-block and a close-block marker
\* that carry its depth; a block without a node gets the empty comment.
SerializeBlock(m, stmts, scope, parent, d) ==
    Bind(Emit(m, CommentNode(BlockOpen(d)), parent, NoNode), LAMBDA opened :
    Bind(SerializeStatements(opened, stmts, scope, parent, d + 1), LAMBDA body :
    Bind(IF Len(body.nodes) = Len(opened.nodes)
         THEN Emit(body, CommentNode(""), parent, NoNode) ELSE body, LAMBDA marked :
      Emit(marked, CommentNode(BlockClose(d)), parent, NoNode))))

SerializeStatement(m, stmt, scope, parent, d) ==
    LET n == Len(m.nodes) + 1
        r == Len(m.references) + 1
    IN  CASE stmt.type = "text" -> SerializeText(m, stmt.value, parent)
          [] stmt.type = "append" ->
               Bind(WithReference(m, scope, stmt.expr), LAMBDA wired :
                 SerializeText(wired,
                               NormalizeTextValue(
                                  ExprValue(wired.references, r, stmt.expr, scope.item)),
                               parent))
          [] stmt.type = "element" ->
               Bind(HostCreate(m, ElementNode(stmt.tagName)), LAMBDA created :
               Bind(RenderAttributes(created, stmt.attrs, scope, n), LAMBDA attrs :
               Bind(SerializeStatements(attrs.m, stmt.body, scope, n, d), LAMBDA body :
                 HostInsertBefore(body, parent, n, NoNode))))
          [] stmt.type = "if" ->
               Bind(WithReference(m, scope, stmt.expr), LAMBDA wired :
                 SerializeBlock(wired,
                                IF Truthy(ExprValue(wired.references, r, stmt.expr,
                                                    scope.item))
                                THEN stmt.body ELSE stmt.inverse,
                                scope, parent, d))

\* render(template, { mode: 'serialize' }): the template is a block.
SerializeTemplate(m, stmts, scope, parent) == SerializeBlock(m, stmts, scope, parent, 0)

\* ------------------------------------------------------------------------
\* The evaluation VM: mode 'rehydrate'
\* ------------------------------------------------------------------------

\* The markup does not match: the nodes from the candidate to the end of
\* the block (its close-block marker, or the end of the element) are
\* discarded. The machine after it and the node the block goes on before.
RECURSIVE ClearMismatch(_, _, _)
ClearMismatch(m, candidate, d) ==
    IF candidate = NoNode \/ IsComment(m.nodes, candidate, BlockClose(d))
    THEN [m |-> m, candidate |-> candidate]
    ELSE Bind(NextSibling(m.nodes, candidate), LAMBDA next :
         Bind(HostRemove(m, candidate), LAMBDA removed :
           ClearMismatch(removed, next, d)))

\* A text of the template met with the candidate: a separator is passed
\* over; a text node is taken over, and written when it holds another value;
\* at the empty marker a text node is created; anything else is a mismatch.
\* The machine after it, the text node, and the next candidate.
RehydrateText(m, value, parent, candidate, d) ==
    LET c == IF IsComment(m.nodes, candidate, Separator)
             THEN NextSibling(m.nodes, candidate) ELSE candidate
        n == Len(m.nodes) + 1
    IN  IF IsText(m.nodes, c)
        THEN [m |-> IF m.nodes[c].nodeValue = value THEN m
                    ELSE HostSetNodeValue(m, c, value),
              node |-> c, candidate |-> NextSibling(m.nodes, c)]
        ELSE IF IsComment(m.nodes, c, EmptyText)
        THEN [m |-> Emit(m, TextNode(value), parent, c),
              node |-> n, candidate |-> NextSibling(m.nodes, c)]
        ELSE Bind(ClearMismatch(m, candidate, d - 1), LAMBDA cleared :
               [m |-> Emit(cleared.m, TextNode(value), parent, cleared.candidate),
                node |-> n, candidate |-> cleared.candidate])

RECURSIVE RehydrateStatements(_, _, _, _, _, _)
RECURSIVE RehydrateStatement(_, _, _, _, _, _)

\* A statement list met with the nodes of parent from the candidate on: the
\* machine after it, the bindings remembered, the nodes that stand for the
\* statements, and the next candidate.
RehydrateStatements(m, stmts, scope, parent, candidate, d) ==
    IF stmts = <<>>
    THEN [m |-> m, bindings |-> <<>>, bounds |-> <<>>, candidate |-> candidate]
    ELSE Bind(RehydrateStatement(m, Head(stmts), scope, parent, candidate, d),
              LAMBDA first :
         Bind(RehydrateStatements(first.m, Tail(stmts), scope, parent,
                                  first.candidate, d), LAMBDA rest :
           [m |-> rest.m, bindings |-> first.bindings \o rest.bindings,
            bounds |-> first.bounds \o rest.bounds, candidate |-> rest.candidate]))

\* Statements built afresh before the candidate, as the default mode does.
Fresh(m, stmts, scope, parent, candidate) ==
    Bind(RenderStatements(m, stmts, scope, parent, candidate), LAMBDA built :
      [m |-> built.m, bindings |-> built.bindings, bounds |-> built.bounds,
       candidate |-> candidate])

\* A block met with the candidate. With the open-block marker of its depth,
\* its statements are met with the nodes after it, the nodes left over
\* before its close-block marker are discarded, and the marker is passed
\* over. Without, the nodes are discarded and the block is built afresh.
RehydrateBlock(m, stmts, scope, parent, candidate, d) ==
    IF ~IsComment(m.nodes, candidate, BlockOpen(d))
    THEN Bind(ClearMismatch(m, candidate, d - 1), LAMBDA cleared :
         Bind(Fresh(cleared.m, stmts, scope, parent, cleared.candidate), LAMBDA built :
           WithMarker(built, parent, built.candidate)))
    ELSE Bind(RehydrateStatements(m, stmts, scope, parent,
                                  NextSibling(m.nodes, candidate), d + 1), LAMBDA body :
         Bind(IF body.bounds = <<>> /\ IsComment(body.m.nodes, body.candidate, "")
              THEN [body EXCEPT !.bounds = <<body.candidate>>,
                                !.candidate = NextSibling(body.m.nodes, body.candidate)]
              ELSE body, LAMBDA taken :
         Bind(ClearMismatch(taken.m, taken.candidate, d), LAMBDA cleared :
         Bind(WithMarker([taken EXCEPT !.m = cleared.m], parent, cleared.candidate),
              LAMBDA marked :
           [marked EXCEPT !.candidate =
               IF cleared.candidate = NoNode THEN NoNode
               ELSE NextSibling(marked.m.nodes, cleared.candidate)]))))

RehydrateStatement(m, stmt, scope, parent, candidate, d) ==
    LET r == Len(m.references) + 1
    IN  CASE stmt.type = "text" ->
               Bind(RehydrateText(m, stmt.value, parent, candidate, d), LAMBDA text :
                 [m |-> text.m, bindings |-> <<>>, bounds |-> <<text.node>>,
                  candidate |-> text.candidate])
          [] stmt.type = "append" ->
               Bind(WithReference(m, scope, stmt.expr), LAMBDA wired :
               Bind(NormalizeTextValue(
                       ExprValue(wired.references, r, stmt.expr, scope.item)),
                    LAMBDA value :
               Bind(RehydrateText(wired, value, parent, candidate, d), LAMBDA text :
                 [m |-> text.m,
                  bindings |-> <<Remembered("text", wired, r, stmt.expr, scope)
                                   @@ [node |-> text.node, value |-> value]>>,
                  bounds |-> <<text.node>>, candidate |-> text.candidate])))
          [] stmt.type = "element" ->
               IF /\ candidate # NoNode
                  /\ m.nodes[candidate].nodeType = "element"
                  /\ m.nodes[candidate].tagName = stmt.tagName
               THEN Bind(RenderAttributes(m, stmt.attrs, scope, candidate),
                         LAMBDA attrs :
                    Bind(RehydrateStatements(attrs.m, stmt.body, scope, candidate,
                                             FirstChild(attrs.m.nodes, candidate), d),
                         LAMBDA body :
                    Bind(ClearMismatch(body.m, body.candidate, d - 1), LAMBDA cleared :
                      [m |-> cleared.m, bindings |-> attrs.bindings \o body.bindings,
                       bounds |-> <<candidate>>,
                       candidate |-> NextSibling(cleared.m.nodes, candidate)])))
               ELSE Bind(ClearMismatch(m, candidate, d - 1), LAMBDA cleared :
                      Fresh(cleared.m, <<stmt>>, scope, parent, cleared.candidate))
          [] stmt.type = "if" ->
               Bind(WithReference(m, scope, stmt.expr), LAMBDA wired :
               Bind(Truthy(ExprValue(wired.references, r, stmt.expr, scope.item)),
                    LAMBDA truthy :
               Bind(RehydrateBlock(wired, IF truthy THEN stmt.body ELSE stmt.inverse,
                                   scope, parent, candidate, d), LAMBDA branch :
                 [m |-> branch.m,
                  bindings |->
                    <<Block("if", wired, r, stmt, scope, parent)
                        @@ [truthy |-> truthy, children |-> branch.bindings,
                            bounds |-> branch.bounds]>>,
                  bounds |-> branch.bounds, candidate |-> branch.candidate])))

\* render(template, { mode: 'rehydrate' }): the template is a block met with
\* the first node of parent.
RehydrateTemplate(m, stmts, scope, parent) ==
    RehydrateBlock(m, stmts, scope, parent, FirstChild(m.nodes, parent), 0)

\* ------------------------------------------------------------------------
\* The markup of a tree
\* ------------------------------------------------------------------------

\* The attributes of an element as they are written in its start tag.
RECURSIVE AttributesHTML(_)
AttributesHTML(attributes) ==
    IF attributes = {} THEN ""
    ELSE LET a == CHOOSE a \in attributes : TRUE
         IN  " " \o a.name \o "=\"" \o a.value \o "\""
                \o AttributesHTML(attributes \ {a})

RECURSIVE InnerHTML(_, _, _)
RECURSIVE OuterHTML(_, _, _)

\* The markup of a list of nodes; markers tells whether the marker comments
\* of a serializing render are written.
InnerHTML(nodes, children, markers) ==
    IF children = <<>> THEN ""
    ELSE Bind(OuterHTML(nodes, Head(children), markers), LAMBDA first :
         Bind(InnerHTML(nodes, Tail(children), markers), LAMBDA rest :
           first \o rest))

OuterHTML(nodes, n, markers) ==
    CASE nodes[n].nodeType = "text" -> nodes[n].nodeValue
      [] nodes[n].nodeType = "comment" ->
           IF IsServerMarker(nodes[n]) /\ ~markers THEN ""
           ELSE "<!--" \o nodes[n].nodeValue \o "-->"
      [] nodes[n].nodeType = "element" ->
           Bind(InnerHTML(nodes, nodes[n].childNodes, markers), LAMBDA inner :
             "<" \o nodes[n].tagName \o AttributesHTML(nodes[n].attributes) \o ">"
                \o inner \o "</" \o nodes[n].tagName \o ">")

\* element.innerHTML
ElementHTML(nodes, root, markers) == InnerHTML(nodes, nodes[root].childNodes, markers)

\* content(list) as a function of the list.
RECURSIVE ContentState(_)
ContentState(items) ==
    IF items = <<>> THEN [out |-> <<>>, depth |-> 0]
    ELSE Bind(ContentState(SubSeq(items, 1, Len(items) - 1)),
              LAMBDA state : ContentItem(state, items[Len(items)]))

ContentOf(items) == Join(ContentState(items).out)

\* ------------------------------------------------------------------------
\* Render tests: a template, its context, and the passes over it
\* ------------------------------------------------------------------------

\* this.element of a test: the first node of the document.
TestElement == 1

Person(handle, name) == [handle |-> handle, name |-> name]

TomDale == Person("tomdale", "Tom Dale")

ThomasDale == Person("tomdale", "Thomas Dale")

Chancancode == Person("chancancode", "Godfrey Chan")

Wycats == Person("wycats", "Yehuda Katz")

TemplateNames ==
    {"TextCurlies", "AttributeExpression", "SimpleBlocks", "NestedBlocks", "Loops"}

Template(name) ==
    CASE name = "TextCurlies" -> TextCurlies
      [] name = "AttributeExpression" -> AttributeExpression
      [] name = "SimpleBlocks" -> SimpleBlocks
      [] name = "NestedBlocks" -> NestedBlocks
      [] name = "Loops" -> Loops
      [] name = "MismatchedText" -> MismatchedText
      [] name = "MismatchedTextEmpty" -> MismatchedTextEmpty
      [] name = "MismatchedElements" -> MismatchedElements
      [] name = "ExtraNodes" -> ExtraNodes

\* The templates of the rehydration tests.
RehydrationTemplates ==
    {"MismatchedText", "MismatchedTextEmpty", "MismatchedElements", "ExtraNodes"}

\* The contexts the rehydration tests render with, server side and client
\* side.
RehydrationContexts(name) ==
    CASE name = "MismatchedText" -> {[content |-> "hello"], [content |-> "goodbye"]}
      [] name = "MismatchedTextEmpty" -> {[content |-> ""], [content |-> "hello"]}
      [] name = "MismatchedElements" -> {[admin |-> True], [admin |-> False]}
      [] name = "ExtraNodes" -> {[admin |-> False, stopHaxing |-> "stahp"],
                                 [admin |-> True, stopHaxing |-> Undefined]}

\* The properties a test renders a template with.
Contexts(name) ==
    CASE name = "TextCurlies" -> {[title |-> "hello"]}
      [] name = "AttributeExpression" -> {[funstuff |-> "oh my"]}
      [] name = "SimpleBlocks" ->
           {[admin |-> True, user |-> "chancancode"],
            [admin |-> False, user |-> "chancancode"]}
      [] name = "NestedBlocks" ->
           {[admin |-> True, access |-> True, user |-> "chancancode"]}
      [] name = "Loops" -> {[people |-> <<TomDale, Chancancode, Wycats>>]}
      [] name \in RehydrationTemplates -> RehydrationContexts(name)

\* The properties a test rerenders it with.
Properties(name) ==
    CASE name = "TextCurlies" -> {[title |-> "goodbye"], [title |-> ""],
                                  [title |-> "hello"]}
      [] name = "AttributeExpression" -> {[funstuff |-> "oh boy"], [funstuff |-> ""],
                                          [funstuff |-> "oh my"]}
      [] name = "SimpleBlocks" -> {[admin |-> False], [admin |-> True]}
      [] name = "NestedBlocks" -> {[admin |-> False], [admin |-> True],
                                   [access |-> False], [access |-> True]}
      [] name = "Loops" -> {[people |-> <<ThomasDale, Wycats>>],
                            [people |-> <<Wycats, TomDale>>],
                            [people |-> <<>>],
                            [people |-> <<Chancancode, Wycats, TomDale>>]}
      [] name \in RehydrationTemplates -> RehydrationContexts(name)

Rendered == result # <<>>

\* The context of the test and its revision.
Context == 1

ContextRevision == TagValue(tags[objects[Context].tag])

\* A pass as the history records it: the writes it made, the tree and the
\* bindings before it, the revision of the context at the pass before and
\* at this one, and the properties of the context at this one.
Pass(op, m) ==
    [op |-> op, writes |-> m.writes, before |-> document,
     bindings |-> IF Rendered THEN result[1].bindings ELSE <<>>,
     last |-> IF op = "render" THEN ContextRevision ELSE pass.revision,
     revision |-> ContextRevision, context |-> objects[Context].fields,
     template |-> IF Rendered THEN result[1].template ELSE pass.template]

\* RenderingTest.render: new VersionedObject(context)
TestNewContext(name, context) ==
    /\ objects = <<>>
    /\ VersionedObjectNew(context)
    /\ UNCHANGED renderVars

\* RenderingTest.render: new SimpleRootReference(rootObject)
TestNewSelf ==
    /\ objects # <<>>
    /\ references = <<>>
    /\ ReferenceNewRoot(Context)
    /\ UNCHANGED renderVars

\* render(template, context): the template is built into this.element
\* with the root reference as self.
TestRender(name) ==
    /\ ~Rendered
    /\ references # <<>>
    /\ objects[Context].fields \in Contexts(name)
    /\ \E built \in {RenderStatements(Machine(document, references), Template(name),
                                       RootScope(1), TestElement, NoNode)} :
           /\ document' = built.m.nodes
           /\ references' = built.m.references
           /\ result' = <<[template |-> name, bindings |-> built.bindings]>>
           /\ pass' = [Pass("render", built.m) EXCEPT !.template = name]
    /\ UNCHANGED <<REVISION, tags, objects, observed, called, thisSnapshot, asserted>>

\* RenderResult.rerender() on the nodes and references of a test.
RerenderResult == UpdateBindings(Machine(document, references), result[1].bindings, Null)

\* A rerender that renders the template again in place of the old nodes.
TestRerenderFromScratch ==
    /\ Rendered
    /\ \E cleared \in {RemoveAll(Machine(document, references),
                                  document[TestElement].childNodes)} :
       \E built \in {RenderStatements(cleared, Template(result[1].template),
                                       RootScope(1), TestElement, NoNode)} :
           /\ document' = built.m.nodes
           /\ references' = built.m.references
           /\ result' = <<[result[1] EXCEPT !.bindings = built.bindings]>>
           /\ pass' = Pass("rerender", built.m)
    /\ UNCHANGED <<REVISION, tags, objects, observed, called, thisSnapshot, asserted>>

\* rerender(): env.begin(); renderResult.rerender(); env.commit(). The pass
\* registers nothing with the environment, so the commit has nothing to run.
TestRerender ==
    /\ Rendered
    /\ \E updated \in {RerenderResult} :
           /\ document' = updated.m.nodes
           /\ references' = updated.m.references
           /\ result' = <<[result[1] EXCEPT !.bindings = updated.bindings]>>
           /\ pass' = Pass("rerender", updated.m)
    /\ UNCHANGED <<REVISION, tags, objects, observed, called, thisSnapshot, asserted>>

\* takeSnapshot()
TestTakeSnapshot ==
    /\ Rendered
    /\ thisSnapshot' = TakeSnapshot(document, TestElement)
    /\ UNCHANGED <<tagVars, document, result, pass, asserted>>

\* assertStableNodes(): this.snapshot is compared with a new thisSnapshot, which
\* takeSnapshot() has made this.snapshot.
TestAssertStableNodes ==
    /\ Rendered
    /\ thisSnapshot' = TakeSnapshot(document, TestElement)
    /\ asserted' = [method |-> "assertStableNodes",
                    ok |-> StableNodes(thisSnapshot, thisSnapshot', {})]
    /\ UNCHANGED <<tagVars, document, result, pass>>

\* assertStableRerender() without its takeSnapshot(): the nodes after the
\* rerender are compared with the snapshot the test took last.
TestAssertStableRerenderStale ==
    /\ Rendered
    /\ \E updated \in {RerenderResult} :
           /\ document' = updated.m.nodes
           /\ references' = updated.m.references
           /\ result' = <<[result[1] EXCEPT !.bindings = updated.bindings]>>
           /\ pass' = Pass("rerender", updated.m)
           /\ thisSnapshot' = TakeSnapshot(document', TestElement)
           /\ asserted' = [method |-> "assertStableRerender",
                           ok |-> StableNodes(thisSnapshot, thisSnapshot', {})]
    /\ UNCHANGED <<REVISION, tags, objects, observed, called>>

\* assertStableRerender(): takeSnapshot(); rerender(); assertStableNodes()
TestAssertStableRerender ==
    /\ Rendered
    /\ \E updated \in {RerenderResult} :
           /\ document' = updated.m.nodes
           /\ references' = updated.m.references
           /\ result' = <<[result[1] EXCEPT !.bindings = updated.bindings]>>
           /\ pass' = Pass("rerender", updated.m)
           /\ thisSnapshot' = TakeSnapshot(document', TestElement)
           /\ asserted' = [method |-> "assertStableRerender",
                           ok |-> StableNodes(TakeSnapshot(document, TestElement),
                                              thisSnapshot', {})]
    /\ UNCHANGED <<REVISION, tags, objects, observed, called>>

\* renderServerSide / renderClientSide: if (context) { this.context = context; }
TestSetContext(context) ==
    /\ objects' = [objects EXCEPT ![Context].fields = context]
    /\ tags' = [tags EXCEPT ![objects[Context].tag] = DirtyableTagDirty(@)]
    /\ REVISION' = REVISION + 1
    /\ observed' = Outdated(Context)
    /\ called' = [op |-> "other", object |-> 0]
    /\ UNCHANGED <<references, renderVars>>

\* renderServerSide(): the template is rendered into this.element in mode
\* 'serialize' by an environment of its own, whose references and result
\* are dropped; then takeSnapshot().
TestRenderServerSide(name) ==
    /\ ~Rendered
    /\ pass.op = "none"
    /\ references # <<>>
    /\ objects[Context].fields \in RehydrationContexts(name)
    /\ \E built \in {SerializeTemplate(Machine(document, references), Template(name),
                                        RootScope(1), TestElement)} :
           /\ document' = built.nodes
           /\ pass' = [Pass("serialize", built) EXCEPT !.template = name]
    /\ thisSnapshot' = TakeSnapshot(document', TestElement)
    /\ UNCHANGED <<tagVars, result, asserted>>

\* A renderClientSide() that renders in mode 'default'.
TestRenderClientSideDefault ==
    /\ ~Rendered
    /\ pass.op = "serialize"
    /\ \E built \in {RenderStatements(Machine(document, references),
                                       Template(pass.template), RootScope(1),
                                       TestElement, NoNode)} :
           /\ document' = built.m.nodes
           /\ references' = built.m.references
           /\ result' = <<[template |-> pass.template, bindings |-> built.bindings]>>
           /\ pass' = Pass("rehydrate", built.m)
    /\ UNCHANGED <<REVISION, tags, objects, observed, called, thisSnapshot, asserted>>

\* renderClientSide(): the template is rendered into this.element, over
\* the nodes the server side left there, in mode 'rehydrate'.
TestRenderClientSide ==
    /\ ~Rendered
    /\ pass.op = "serialize"
    /\ \E built \in {RehydrateTemplate(Machine(document, references),
                                        Template(pass.template), RootScope(1),
                                        TestElement)} :
           /\ document' = built.m.nodes
           /\ references' = built.m.references
           /\ result' = <<[template |-> pass.template, bindings |-> built.bindings]>>
           /\ pass' = Pass("rehydrate", built.m)
    /\ UNCHANGED <<REVISION, tags, objects, observed, called, thisSnapshot, asserted>>

\* The test changes its context.
TestUpdate(properties) ==
    /\ Rendered
    /\ VersionedObjectUpdate(Context, properties)
    /\ UNCHANGED renderVars

TestSet(key, value) ==
    /\ Rendered
    /\ VersionedObjectSet(Context, key, value)
    /\ UNCHANGED renderVars

TestDirty ==
    /\ Rendered
    /\ VersionedObjectDirty(Context)
    /\ UNCHANGED renderVars

\* A test before it renders: this.element is an empty div.
RenderIdle ==
    /\ document = <<ElementNode("div")>>
    /\ result = <<>>
    /\ thisSnapshot = <<>>
    /\ asserted = [method |-> "none", ok |-> TRUE]
    /\ pass = [op |-> "none", writes |-> 0, before |-> <<>>, bindings |-> <<>>,
               last |-> InitialRevision, revision |-> InitialRevision,
               context |-> <<>>, template |-> "none"]

LaterIdle ==
    /\ TagInit
    /\ ContentIdle
    /\ RenderIdle
    /\ PathIdle
    /\ CallbackIdle

\* ------------------------------------------------------------------------
\* Spec: an arbitrary caller of the environment
\* ------------------------------------------------------------------------

Init ==
    /\ EnvInit
    /\ ScopeInit
    /\ HarnessIdle
    /\ testCase = "none"
    /\ SyntaxInit
    /\ DomIdle
    /\ LaterIdle

Begin == EnvBegin /\ UNCHANGED <<scopeVars, harnessVars, syntaxVars, domVars, laterVars>>

DidCreate ==
    /\ \E c \in Components, m \in ComponentManagers : EnvDidCreate(c, m)
    /\ UNCHANGED <<scopeVars, harnessVars, syntaxVars, domVars, laterVars>>

DidUpdate ==
    /\ \E c \in Components, m \in ComponentManagers : EnvDidUpdate(c, m)
    /\ UNCHANGED <<scopeVars, harnessVars, syntaxVars, domVars, laterVars>>

ScheduleInstallModifier ==
    /\ \E x \in Modifiers, m \in ModifierManagers : EnvScheduleInstallModifier(x, m)
    /\ UNCHANGED <<scopeVars, harnessVars, syntaxVars, domVars, laterVars>>

ScheduleUpdateModifier ==
    /\ \E x \in Modifiers, m \in ModifierManagers : EnvScheduleUpdateModifier(x, m)
    /\ UNCHANGED <<scopeVars, harnessVars, syntaxVars, domVars, laterVars>>

DidDestroy ==
    /\ \E d \in Destroyables : EnvDidDestroy(d)
    /\ UNCHANGED <<scopeVars, harnessVars, syntaxVars, domVars, laterVars>>

CommitCall == EnvCommitCall /\ UNCHANGED <<scopeVars, harnessVars, syntaxVars, domVars, laterVars>>

CommitInvoke == EnvCommitInvoke /\ UNCHANGED <<scopeVars, harnessVars, syntaxVars, domVars, laterVars>>

CommitAdvance == EnvCommitAdvance /\ UNCHANGED <<scopeVars, harnessVars, syntaxVars, domVars, laterVars>>

CommitReturn == EnvCommitReturn /\ UNCHANGED <<scopeVars, harnessVars, syntaxVars, domVars, laterVars>>

Next ==
    \/ Begin
    \/ DidCreate
    \/ DidUpdate
    \/ ScheduleInstallModifier
    \/ ScheduleUpdateModifier
    \/ DidDestroy
    \/ CommitCall
    \/ CommitInvoke
    \/ CommitAdvance
    \/ CommitReturn

Spec == Init /\ [][Next]_vars

\* ------------------------------------------------------------------------
\* SpecScope: an arbitrary caller of Scope
\* ------------------------------------------------------------------------

Root ==
    /\ \E self \in SelfReferences, size \in 0..MaxSize : ScopeRoot(self, size)
    /\ UNCHANGED <<envVars, harnessVars, syntaxVars, domVars, laterVars>>

Child ==
    /\ \E s \in ScopeIds : ScopeChild(s)
    /\ UNCHANGED <<envVars, harnessVars, syntaxVars, domVars, laterVars>>

BindSymbol ==
    /\ \E s \in ScopeIds : \E symbol \in Symbols(s), value \in PathReferences :
          ScopeBindSymbol(s, symbol, value)
    /\ UNCHANGED <<envVars, harnessVars, syntaxVars, domVars, laterVars>>

BindBlock ==
    /\ \E s \in ScopeIds : \E symbol \in Symbols(s), value \in InlineBlocks :
          ScopeBindBlock(s, symbol, value)
    /\ UNCHANGED <<envVars, harnessVars, syntaxVars, domVars, laterVars>>

BindPartialArgs ==
    /\ \E s \in ScopeIds : \E symbol \in Symbols(s), value \in EvaluatedArgsValues :
          ScopeBindPartialArgs(s, symbol, value)
    /\ UNCHANGED <<envVars, harnessVars, syntaxVars, domVars, laterVars>>

BindCallerScope ==
    /\ \E s \in ScopeIds, scope \in ScopeIds : ScopeBindCallerScope(s, scope)
    /\ UNCHANGED <<envVars, harnessVars, syntaxVars, domVars, laterVars>>

NextScope ==
    \/ Root
    \/ Child
    \/ BindSymbol
    \/ BindBlock
    \/ BindPartialArgs
    \/ BindCallerScope

SpecScope == Init /\ [][NextScope]_vars

\* ------------------------------------------------------------------------
\* SpecHarness: tests driving render passes through the harness
\* ------------------------------------------------------------------------

InitHarness ==
    /\ EnvInit
    /\ ScopeInit
    /\ HarnessIdle
    /\ testCase \in TestCases
    /\ SyntaxInit
    /\ DomIdle
    /\ LaterIdle

NextHarness ==
    \/ HarnessCall
    \/ HarnessBegin
    \/ HarnessNext
    \/ HarnessRerender
    \/ HarnessCommit
    \/ HarnessResult
    \/ HarnessCallback
    \/ HarnessCommitInvoke
    \/ HarnessCommitAdvance
    \/ HarnessCommitReturn

SpecHarness == InitHarness /\ [][NextHarness]_vars

\* ------------------------------------------------------------------------
\* SpecStatement: the compiler refining statements
\* ------------------------------------------------------------------------

RefineAStatement ==
    /\ \E s \in Statements : EnvStatement(s)
    /\ UNCHANGED <<envVars, scopeVars, harnessVars, domVars, laterVars>>

RegisterHelper ==
    /\ \E name \in HelperNames : EnvRegisterHelper(name)
    /\ UNCHANGED <<envVars, scopeVars, harnessVars, domVars, laterVars>>

NextStatement ==
    \/ RefineAStatement
    \/ RegisterHelper

SpecStatement == Init /\ [][NextStatement]_vars

\* ------------------------------------------------------------------------
\* SpecAttr: one dynamic attribute rendered and rerendered on an element
\* ------------------------------------------------------------------------

InitAttr ==
    /\ EnvInit
    /\ ScopeInit
    /\ HarnessIdle
    /\ testCase = "none"
    /\ SyntaxInit
    /\ element \in {CreateElement(e) : e \in Elements}
    /\ binding = <<>>
    /\ ops = <<>>
    /\ LaterIdle

AttributeFor ==
    /\ \E attr \in AttrNames, isTrusting \in BOOLEAN, namespace \in Namespaces :
          EnvAttributeFor(attr, isTrusting, namespace)
    /\ UNCHANGED <<envVars, scopeVars, harnessVars, syntaxVars, laterVars>>

Flush ==
    /\ \E value \in Values : DynamicAttributeFlush(value)
    /\ UNCHANGED <<envVars, scopeVars, harnessVars, syntaxVars, laterVars>>

Update ==
    /\ \E value \in Values : DynamicAttributeUpdate(value)
    /\ UNCHANGED <<envVars, scopeVars, harnessVars, syntaxVars, laterVars>>

Types ==
    /\ \E text \in UserTexts : UserTypes(text)
    /\ UNCHANGED <<envVars, scopeVars, harnessVars, syntaxVars, laterVars>>

NextAttr ==
    \/ AttributeFor
    \/ Flush
    \/ Update
    \/ Types

SpecAttr == InitAttr /\ [][NextAttr]_vars

\* ------------------------------------------------------------------------
\* Properties of the transaction protocol
\* ------------------------------------------------------------------------

Range(s) == {s[k] : k \in 1..Len(s)}

Count(s, e) == Cardinality({k \in 1..Len(s) : s[k] = e})

\* The place of each callback in the drain order the specification states.
DrainRank(op) ==
    CASE op = "didCreate" -> 1
      [] op = "didUpdate" -> 2
      [] op = "destroy"   -> 3
      [] op = "install"   -> 4
      [] op = "update"    -> 5

\* Transaction k has been committed.
Closed(k) == k < cycle \/ (k = cycle /\ ~InTransaction)

\* The callbacks of transaction k for one queue, in order.
Calls(s, k, op) ==
    LET Mine(e) == e.cycle = k /\ e.op = op
    IN  SelectSeq(s, Mine)

IsPrefix(s, t) == Len(s) <= Len(t) /\ \A k \in 1..Len(s) : s[k] = t[k]

\* C1: within one commit(), every didCreate callback is invoked before every
\* didUpdate callback, these before every destroy(), these before every
\* modifier install, and these before every modifier update, whatever the
\* order in which the entries were registered.
C1_DrainOrder ==
    \A i, j \in 1..Len(log) :
        (i < j /\ log[i].cycle = log[j].cycle)
            => DrainRank(log[i].op) <= DrainRank(log[j].op)

\* Two entries registered against the drain order have both been invoked.
C1_Witness ==
    \E i, j \in 1..Len(registered) :
        /\ i < j
        /\ registered[i].cycle = registered[j].cycle
        /\ DrainRank(registered[i].op) > DrainRank(registered[j].op)
        /\ Closed(registered[i].cycle)
        /\ registered[i] \in Range(log)
        /\ registered[j] \in Range(log)

C3_FifoPairs ==
    \A k \in 1..cycle : \A op \in Range(Phases) :
        /\ IsPrefix(Calls(log, k, op), Calls(registered, k, op))
        /\ Closed(k) => Calls(log, k, op) = Calls(registered, k, op)

\* Two entries of one queue, with different managers and different
\* components or modifiers, have been invoked.
C3_Witness ==
    \E k \in 1..cycle : \E op \in Range(Phases) \ {"destroy"} :
        /\ Closed(k)
        /\ Len(Calls(log, k, op)) = 2
        /\ Calls(log, k, op)[1].receiver # Calls(log, k, op)[2].receiver
        /\ Calls(log, k, op)[1].argument # Calls(log, k, op)[2].argument

\* C4: begin() while a transaction is open fails with the nested-transaction
\* error and leaves the open transaction, its queued entries and the callback
\* history as they were.
C4_NestedBeginFails ==
    [][(InTransaction /\ outcome'.call = "begin")
          => /\ outcome'.error = NestedTransaction
             /\ transaction' = transaction
             /\ log' = log]_vars

\* A nested begin() has failed on a transaction that holds a queued entry.
C4_Witness ==
    /\ outcome = Result("begin", NestedTransaction)
    /\ InTransaction
    /\ transaction[1] # NewTransaction

\* C5: commit() with no transaction open fails with the must-be-in-a-
\* transaction error, invokes no callback and leaves the environment idle.
C5_CommitOutsideFails ==
    [][(~InTransaction /\ outcome'.call = "commit")
          => /\ outcome'.error = MustBeInTransaction
             /\ ~InTransaction'
             /\ AtRest'
             /\ log' = log]_vars

\* A second commit() after a successful commit() has failed.
C5_Witness ==
    /\ outcome = Result("commit", MustBeInTransaction)
    /\ cycle > 0
    /\ log # <<>>

\* C6: the environment starts idle; at most one transaction is open; a
\* successful begin() starts from idle and opens a transaction with five
\* empty queues; a returning commit() leaves the environment idle, where
\* begin() succeeds.
C6_StateMachine ==
    /\ ~InTransaction
    /\ [](Len(transaction) <= 1)
    /\ [][/\ (outcome'.call = "begin" /\ outcome'.error = NoError)
               => (~InTransaction /\ transaction' = <<NewTransaction>>)
          /\ (outcome'.call = "commit" /\ outcome'.error = NoError)
               => (InTransaction /\ ~InTransaction' /\ AtRest')
          /\ (outcome'.call = "begin" /\ ~InTransaction)
               => outcome'.error = NoError]_vars

\* A second transaction is open after the first one was committed.
C6_Witness ==
    /\ cycle = 2
    /\ outcome = Result("begin", NoError)
    /\ transaction = <<NewTransaction>>
    /\ log # <<>>

\* ------------------------------------------------------------------------
\* Properties of the test harness
\* ------------------------------------------------------------------------

\* C7: every render pass and every rerender pass the harness drives runs
\* inside an open transaction: whenever a harness method is about to step the
\* render iterator or to call RenderResult.rerender(), begin() has been called
\* and commit() has not.
C7_PassInsideTransaction ==
    (Executing("next") \/ Executing("rerender")) => InTransaction

\* ------------------------------------------------------------------------
\* Properties of Scope
\* ------------------------------------------------------------------------

\* this.slots of scope s after the step.
SlotsAfter(s) == slotArrays'[scopes'[s].slots]

\* The step creates a scope by child().
ChildCreated ==
    Len(scopes') > Len(scopes) /\ derivation'[Len(scopes')].parent # NoScope

\* The step creates a scope by Scope.root().
RootCreated ==
    Len(scopes') > Len(scopes) /\ derivation'[Len(scopes')].parent = NoScope

\* C8: no call changes the slots of two scopes: a bind on a child leaves the
\* scope it was cloned from as it was, and a bind on that scope leaves the
\* child as it was; child() itself leaves the parent's slots as they were and
\* gives the new scope the same value as the parent in every slot.
C8_CloneIsolation ==
    [][/\ \A x, y \in ScopeIds :
             (x # y /\ SlotsAfter(x) # Slots(x)) => SlotsAfter(y) = Slots(y)
       /\ ChildCreated =>
             /\ SlotsAfter(derivation'[Len(scopes')].parent)
                   = Slots(derivation'[Len(scopes')].parent)
             /\ DOMAIN SlotsAfter(Len(scopes'))
                   = DOMAIN Slots(derivation'[Len(scopes')].parent)
             /\ \A n \in DOMAIN SlotsAfter(Len(scopes')) :
                   SlotsAfter(Len(scopes'))[n]
                      = GetSymbol(derivation'[Len(scopes')].parent, n)]_vars

\* A symbol has been bound in a child and is still undefined in the scope
\* the child was cloned from.
C8_Witness ==
    \E c \in ScopeIds :
        /\ derivation[c].parent # NoScope
        /\ derivation[c].size >= 1
        /\ GetSymbol(c, 1) \in InlineBlocks
        /\ GetSymbol(derivation[c].parent, 1) = UNDEFINED_REFERENCE

C10_CallerScopeShared ==
    [][/\ ChildCreated =>
             /\ Len(scopes') = Len(scopes) + 1
             /\ scopes'[Len(scopes')].callerScope
                   = GetCallerScope(derivation'[Len(scopes')].parent)
             /\ \A s \in ScopeIds : scopes'[s] = scopes[s]
       /\ RootCreated => scopes'[Len(scopes')].callerScope = NoScope]_vars

\* A child was cloned from a scope that has a caller scope.
C10_Witness ==
    \E c \in ScopeIds :
        /\ derivation[c].parent # NoScope
        /\ GetCallerScope(c) # NoScope
        /\ GetCallerScope(c) = GetCallerScope(derivation[c].parent)

\* ------------------------------------------------------------------------
\* Properties of statement refinement
\* ------------------------------------------------------------------------

\* The statement is a block whose path is the one identifier key.
IsSimpleBlock(s, key) == s.type = "block" /\ s.path = <<<<key>>>>

\* C11: statement() rewrites a block that has args and whose path is exactly
\* one identifier equal to 'each', 'if', 'with' or 'unless' into a new
\* EachSyntax, IfSyntax, WithSyntax or UnlessSyntax built from the block's
\* args, each key giving its own syntax and no other.
C11_BuiltInRewritten ==
    \A key \in DOMAIN BuiltIns :
        (statement # <<>> /\ IsSimpleBlock(statement[1], key) /\ statement[1].args # <<>>)
            => /\ refined[1].type = BuiltIns[key]
               /\ refined[1].args = statement[1].args
               /\ refined[1].ref # statement[1].ref
               /\ \A other \in DOMAIN BuiltIns \ {key} :
                     refined[1].type # BuiltIns[other]

\* An {{#unless}} block has been rewritten into an UnlessSyntax with its args.
C11_Witness ==
    /\ statement # <<>>
    /\ IsSimpleBlock(statement[1], "unless")
    /\ refined[1] = NewSyntax("UnlessSyntax", "args2")

\* C12: statement() returns the statement it was given, the same object, for
\* every statement that is not a block, for every block whose path does not
\* have exactly one part, and for every block whose one part is not 'each',
\* 'if', 'with' or 'unless'.
C12_OthersPassThrough ==
    (/\ statement # <<>>
     /\ \/ statement[1].type # "block"
        \/ Len(statement[1].path[1]) # 1
        \/ statement[1].path[1][1] \notin DOMAIN BuiltIns)
        => refined[1] = statement[1]

\* The inline append {{if}} has been returned as it was given.
C12_Witness ==
    /\ statement # <<>>
    /\ statement[1].type = "optimized-append"
    /\ statement[1].value[1].type = "unknown"
    /\ statement[1].value[1].parts = <<"if">>
    /\ refined = statement

\* C13: the result of statement() does not depend on the helpers registered:
\* every environment, whatever its helper registry, returns for the statement
\* what this environment returned, and a block whose head is a built-in name
\* is rewritten into the built-in even when a helper of that name is
\* registered.
C13_BuiltInsNotOverridable ==
    statement # <<>> =>
        /\ \A registry \in SUBSET HelperNames :
              Statement([helpers |-> registry], statement[1]) = refined[1]
        /\ \A key \in DOMAIN BuiltIns :
              (IsSimpleBlock(statement[1], key) /\ statement[1].args # <<>>)
                  => refined[1].type = BuiltIns[key]

\* An {{#if}} block has been rewritten into an IfSyntax by an environment
\* that has a helper named 'if'.
C13_Witness ==
    /\ "if" \in helpers
    /\ statement # <<>>
    /\ IsSimpleBlock(statement[1], "if")
    /\ refined[1].type = "IfSyntax"

\* ------------------------------------------------------------------------
\* Properties of the change lists
\* ------------------------------------------------------------------------

AttributeStrategies == {"AttributeChangeList", "SafeHrefAttributeChangeList"}

PropertyStrategies ==
    {"PropertyChangeList", "InputValuePropertyChangeList", "SafeHrefPropertyChangeList"}

SafeHrefStrategies == {"SafeHrefPropertyChangeList", "SafeHrefAttributeChangeList"}

\* The calls made on the change list, in order.
ChangeListOps == {k \in 1..Len(ops) : ops[k].op \in {"setAttribute", "updateAttribute"}}

\* The attribute of the binding as the element holds it.
AttributesOf(el) == {a \in el.attributes : a.name = binding[1].attr}

\* C14: for an element in the SVG namespace defaultChangeLists selects an
\* attribute strategy whatever the attribute normalizes to; for another
\* element it selects an attribute strategy when the attribute normalizes to
\* type 'attr' and a property strategy otherwise; it always selects one of
\* the five strategies.
C14_StrategySelection ==
    HasBinding =>
        /\ binding[1].changeList \in ChangeLists
        /\ element.namespaceURI = SVG_NAMESPACE
              => binding[1].changeList \in AttributeStrategies
        /\ (element.namespaceURI # SVG_NAMESPACE
               /\ NormalizeProperty(element, binding[1].attr).type = "attr")
              => binding[1].changeList \in AttributeStrategies
        /\ (element.namespaceURI # SVG_NAMESPACE
               /\ NormalizeProperty(element, binding[1].attr).type # "attr")
              => binding[1].changeList \in PropertyStrategies

\* An attribute strategy has been selected for an SVG element that has a
\* property of the attribute's name.
C14_Witness ==
    /\ HasBinding
    /\ element.namespaceURI = SVG_NAMESPACE
    /\ NormalizeProperty(element, binding[1].attr).type = "prop"
    /\ binding[1].changeList \in AttributeStrategies

\* C15: whenever requiresSanitization(tagName, attr) holds, a SafeHref
\* strategy is selected, for SVG and other elements and for either value of
\* isTrusting; every value a SafeHref strategy writes to the element is the
\* (normalized) output of sanitizeAttributeValue, never the value as given
\* when the sanitizer changes it.
C15_AlwaysSanitized ==
    HasBinding =>
        /\ RequiresSanitization(element.tagName, binding[1].attr)
              => binding[1].changeList \in SafeHrefStrategies
        /\ binding[1].changeList \in SafeHrefStrategies =>
              \A k \in ChangeListOps : \A n \in 1..Len(ops[k].writes) :
                 LET sanitized == SanitizeAttributeValue(ops[k].before, binding[1].attr,
                                                         ops[k].value)
                 IN  /\ ops[k].writes[n].value
                           \in {sanitized, NormalizePropertyValue(sanitized)}
                     /\ sanitized # ops[k].value
                           => ops[k].writes[n].value # ops[k].value

\* A SafeHref strategy has written the sanitized form of a javascript: URL:
\* the property strategy by setAttribute on a trusting binding, or the
\* attribute strategy by updateAttribute on an SVG element.
C15_Witness ==
    /\ HasBinding
    /\ binding[1].changeList \in SafeHrefStrategies
    /\ \E k \in ChangeListOps :
          /\ ops[k].value = "javascript:b"
          /\ ops[k].writes # <<>>
          /\ ops[k].writes[1].value = "unsafe:javascript:b"
          /\ \/ /\ binding[1].changeList = "SafeHrefPropertyChangeList"
                /\ binding[1].isTrusting
                /\ ops[k].op = "setAttribute"
             \/ /\ binding[1].changeList = "SafeHrefAttributeChangeList"
                /\ element.namespaceURI = SVG_NAMESPACE
                /\ ops[k].op = "updateAttribute"

\* C16: setAttribute and updateAttribute of InputValuePropertyChangeList write
\* input.value only when the normalized text of the new value differs from
\* the live value of the input; when they are equal nothing is written; after
\* either call input.value is the normalized new value.
C16_InputValueGuard ==
    (HasBinding /\ binding[1].changeList = "InputValuePropertyChangeList") =>
        \A k \in ChangeListOps :
            /\ InputValue(ops[k].before) = NormalizeTextValue(ops[k].value)
                  => (ops[k].writes = <<>> /\ ops[k].after = ops[k].before)
            /\ InputValue(ops[k].before) # NormalizeTextValue(ops[k].value)
                  => ops[k].writes
                        = <<PropertyWrite("value", NormalizeTextValue(ops[k].value))>>
            /\ InputValue(ops[k].after) = NormalizeTextValue(ops[k].value)

\* The user has typed the text the next update carries, and the update has
\* written nothing; an earlier call did write.
C16_Witness ==
    /\ HasBinding
    /\ binding[1].changeList = "InputValuePropertyChangeList"
    /\ \E j, k \in ChangeListOps :
          /\ j < k
          /\ ops[j].writes # <<>>
          /\ ops[k - 1].op = "input"
          /\ ops[k].op = "updateAttribute"
          /\ ops[k].value = ops[k - 1].value
          /\ ops[k].writes = <<>>

\* C17: setAttribute with null or undefined writes nothing, for each of the
\* five strategies: no attribute is set and no property is assigned.
C17_SetSkipsNullish ==
    \A k \in ChangeListOps :
        (ops[k].op = "setAttribute" /\ ops[k].value \in {Null, Undefined})
            => (ops[k].writes = <<>> /\ ops[k].after = ops[k].before)

\* The values a property holds when it is empty.
EmptyPropertyValues == {Null, ""}

\* The attribute is gone from the element, or the property is empty.
Removed(el) ==
    IF binding[1].changeList \in AttributeStrategies
      THEN AttributesOf(el) = {}
      ELSE el.properties[ToLowerCase(binding[1].attr)] \in EmptyPropertyValues

\* C18: once the attribute has been set to a value that is not null,
\* updateAttribute with null or undefined removes the attribute from the
\* element (attribute strategies) or resets the property to its empty value
\* (property strategies), for each strategy.
C18_NullRemoves ==
    \A j, k \in ChangeListOps :
        (/\ j < k
         /\ ops[j].value \notin {Null, Undefined}
         /\ ops[k].op = "updateAttribute"
         /\ ops[k].value \in {Null, Undefined})
            => Removed(ops[k].after)

\* Call k has applied its value to the element: an update, or a setAttribute
\* with a value that is not skipped.
Applied(k) == ops[k].op = "updateAttribute" \/ ops[k].value \notin {Null, Undefined}

\* C19: updateAttribute with the value that is applied to the element writes
\* nothing to the element, for each strategy, and a second updateAttribute
\* with the same value leaves the element as the first one left it.
C19_UpdateIdempotent ==
    \A k \in ChangeListOps :
        (/\ k > 1
         /\ k - 1 \in ChangeListOps
         /\ ops[k].op = "updateAttribute"
         /\ ops[k - 1].value = ops[k].value)
            => /\ Applied(k - 1) => ops[k].writes = <<>>
               /\ ops[k - 1].op = "updateAttribute" => ops[k].after = ops[k - 1].after

\* C20: setAttribute(v), updateAttribute(w), updateAttribute(null),
\* updateAttribute(v) with v not null leaves the attributes and properties of
\* the element as they were right after setAttribute(v), on the same element,
\* for each strategy.
C20_RoundTrip ==
    \A k \in ChangeListOps :
        (/\ ops[k].op = "setAttribute"
         /\ ops[k].value \notin {Null, Undefined}
         /\ {k + 1, k + 2, k + 3} \subseteq ChangeListOps
         /\ ops[k + 2].value = Null
         /\ ops[k + 3].value = ops[k].value)
            => ops[k + 3].after = ops[k].after

\* ------------------------------------------------------------------------
\* SpecReference: an arbitrary caller of VersionedObject and its references
\* ------------------------------------------------------------------------

notTagVars == <<envVars, scopeVars, harnessVars, syntaxVars, domVars, markerVars, renderVars, furtherVars>>

NewVersionedObject ==
    /\ Len(objects) < MaxObjects
    /\ \E value \in ObjectValues : VersionedObjectNew(value)
    /\ UNCHANGED notTagVars

ObjectUpdate ==
    /\ REVISION < MaxRevision
    /\ \E o \in DOMAIN objects, value \in ObjectValues : VersionedObjectUpdate(o, value)
    /\ UNCHANGED notTagVars

ObjectSet ==
    /\ REVISION < MaxRevision
    /\ \E o \in DOMAIN objects, key \in PropertyNames, value \in PropertyValues :
          VersionedObjectSet(o, key, value)
    /\ UNCHANGED notTagVars

ObjectDirty ==
    /\ REVISION < MaxRevision
    /\ \E o \in DOMAIN objects : VersionedObjectDirty(o)
    /\ UNCHANGED notTagVars

NewRootReference ==
    /\ Len(references) < MaxReferences
    /\ \E o \in DOMAIN objects : ReferenceNewRoot(o)
    /\ UNCHANGED notTagVars

Get ==
    /\ Len(references) < MaxReferences
    /\ \E r \in DOMAIN references, key \in PropertyNames : ReferenceGet(r, key)
    /\ UNCHANGED notTagVars

Observe ==
    /\ Len(observed) < MaxObserved
    /\ \E r \in DOMAIN references : ReferenceObserve(r)
    /\ UNCHANGED notTagVars

NextReference ==
    \/ NewVersionedObject
    \/ ObjectUpdate
    \/ ObjectSet
    \/ ObjectDirty
    \/ NewRootReference
    \/ Get
    \/ Observe

SpecReference == Init /\ [][NextReference]_vars

\* ------------------------------------------------------------------------
\* SpecContent: the rehydration tests serializing lists of contents
\* ------------------------------------------------------------------------

notMarkerVars == <<envVars, scopeVars, harnessVars, syntaxVars, domVars, tagVars, renderVars, furtherVars>>

Content ==
    /\ by = "none" \/ returned # <<>>
    /\ \E items \in ContentLists(MaxItems) : ContentCall("content", items)
    /\ UNCHANGED notMarkerVars

AssertServerOutput ==
    /\ by = "none" \/ returned # <<>>
    /\ \E expected \in ContentLists(MaxItems) : AssertServerOutputCall(expected)
    /\ UNCHANGED notMarkerVars

ForEach == ContentForEach /\ UNCHANGED notMarkerVars

Return == ContentReturn /\ UNCHANGED notMarkerVars

NextContent ==
    \/ Content
    \/ AssertServerOutput
    \/ ForEach
    \/ Return

SpecContent == Init /\ [][NextContent]_vars

\* ------------------------------------------------------------------------
\* SpecRender: a test rendering a template and rerendering it
\* ------------------------------------------------------------------------

notRenderVars == <<envVars, scopeVars, harnessVars, syntaxVars, domVars, markerVars, furtherVars>>

NewContext ==
    /\ \E name \in TemplateNames : \E context \in Contexts(name) :
          TestNewContext(name, context)
    /\ UNCHANGED notRenderVars

NewSelf == TestNewSelf /\ UNCHANGED notRenderVars

RenderATemplate ==
    /\ \E name \in TemplateNames : TestRender(name)
    /\ UNCHANGED notRenderVars

Rerender == TestRerender /\ UNCHANGED notRenderVars

TakeASnapshot == TestTakeSnapshot /\ UNCHANGED notRenderVars

AssertStableNodes == TestAssertStableNodes /\ UNCHANGED notRenderVars

AssertStableRerender == TestAssertStableRerender /\ UNCHANGED notRenderVars

ContextUpdate ==
    /\ REVISION < MaxRevision
    /\ Rendered
    /\ \E properties \in Properties(result[1].template) : TestUpdate(properties)
    /\ UNCHANGED notRenderVars

ContextSet ==
    /\ REVISION < MaxRevision
    /\ Rendered
    /\ \E properties \in Properties(result[1].template) :
          \E key \in DOMAIN properties : TestSet(key, properties[key])
    /\ UNCHANGED notRenderVars

ContextDirty ==
    /\ REVISION < MaxRevision
    /\ TestDirty
    /\ UNCHANGED notRenderVars

NextRender ==
    \/ NewContext
    \/ NewSelf
    \/ RenderATemplate
    \/ Rerender
    \/ TakeASnapshot
    \/ AssertStableNodes
    \/ AssertStableRerender
    \/ ContextUpdate
    \/ ContextSet
    \/ ContextDirty

SpecRender == Init /\ [][NextRender]_vars

\* ------------------------------------------------------------------------
\* SpecRehydration: a test rendering server side, then client side over it
\* ------------------------------------------------------------------------

SetupContext ==
    /\ \E name \in RehydrationTemplates : \E context \in RehydrationContexts(name) :
          TestNewContext(name, context)
    /\ UNCHANGED notRenderVars

RenderServerSide ==
    /\ \E name \in RehydrationTemplates : TestRenderServerSide(name)
    /\ UNCHANGED notRenderVars

\* renderClientSide(context) with a context: this.context = context
ClientContext ==
    /\ ~Rendered
    /\ pass.op = "serialize"
    /\ pass.revision = ContextRevision
    /\ \E context \in RehydrationContexts(pass.template) : TestSetContext(context)
    /\ UNCHANGED notRenderVars

RenderClientSide == TestRenderClientSide /\ UNCHANGED notRenderVars

NextRehydration ==
    \/ SetupContext
    \/ NewSelf
    \/ RenderServerSide
    \/ ClientContext
    \/ RenderClientSide
    \/ Rerender
    \/ AssertStableNodes
    \/ AssertStableRerender
    \/ ContextUpdate

SpecRehydration == Init /\ [][NextRehydration]_vars

\* ------------------------------------------------------------------------
\* Properties of tags and references
\* ------------------------------------------------------------------------

\* The revision seen through the tag of an object.
ObjectRevision(o) == TagValue(tags[objects[o].tag])

Mutations == {"update", "set", "dirty"}

\* C29: every update(), set() or dirty() of a VersionedObject makes the
\* revision seen through its tag strictly greater than before the call, no
\* call ever decreases the revision of an object, and a revision observed
\* before a mutation of the object never validates after it.
C29_RevisionMonotonic ==
    /\ [][/\ \A o \in DOMAIN objects : ObjectRevision(o)' >= ObjectRevision(o)
          /\ (called'.op \in Mutations /\ tagVars' # tagVars)
                => TagValue(tags'[objects'[called'.object].tag])
                      > TagValue(tags[objects[called'.object].tag])]_vars
    /\ [](\A i \in DOMAIN observed :
             observed[i].outdated
                => ~TagValidate(tags[objects[observed[i].object].tag],
                                observed[i].revision))

\* An object was observed, then mutated twice by different calls.
C29_Witness ==
    /\ called.op = "set"
    /\ \E i \in DOMAIN observed :
          /\ observed[i].outdated
          /\ observed[i].object = called.object
          /\ ObjectRevision(called.object) >= observed[i].revision + 2

\* C30: the tag of every reference reached from a SimpleRootReference by
\* get(key) calls is the tag of the root object; a derived reference whose
\* tag validates against an observed revision has a root whose revision is
\* still the observed one and that was not mutated since, and a mutation of
\* the root object invalidates the references observed at every depth.
C30_DerivedTagsFollowParent ==
    /\ \A r \in DOMAIN references :
          references[r].tag = objects[RootOf(references, r)].tag
    /\ \A i \in DOMAIN observed :
          LET r == observed[i].reference
          IN  /\ TagValidate(tags[references[r].tag], observed[i].revision)
                    => /\ ObjectRevision(observed[i].object) = observed[i].revision
                       /\ ~observed[i].outdated
              /\ observed[i].outdated
                    => ~TagValidate(tags[references[r].tag], observed[i].revision)

\* A reference two get(key) calls below the root was observed and its root
\* object mutated afterwards.
C30_Witness ==
    /\ \E i \in DOMAIN observed :
          /\ DepthOf(references, observed[i].reference) = 2
          /\ observed[i].object = 1
          /\ observed[i].outdated

\* ------------------------------------------------------------------------
\* Properties of the serialized markers
\* ------------------------------------------------------------------------

\* The number of blocks open after the first k items: opens minus closes.
RECURSIVE Nesting(_, _)
Nesting(items, k) ==
    IF k = 0 THEN 0
    ELSE Nesting(items, k - 1)
           + (IF items[k] = OPEN THEN 1 ELSE IF items[k] = CLOSE THEN -1 ELSE 0)

\* No close-block without an open block before it.
WellNested(items) == \A k \in 0..Len(items) : Nesting(items, k) >= 0

Balanced(items) == WellNested(items) /\ Nesting(items, Len(items)) = 0

\* The open-block a close-block at j closes: the last one before j that
\* opened at the nesting j returns to.
Match(items, j) ==
    CHOOSE i \in 1..(j - 1) :
        /\ items[i] = OPEN
        /\ Nesting(items, i - 1) = Nesting(items, j)
        /\ \A k \in (i + 1)..(j - 1) :
              ~(items[k] = OPEN /\ Nesting(items, k - 1) = Nesting(items, j))

\* C28: content() starts the depth at 0; an open-block marker carries the
\* depth and then increments it, a close-block marker decrements the depth
\* and then carries it, sep and empty markers carry no depth and leave it
\* alone; so in a well-nested list the depth is never negative and every
\* close-block marker carries the depth of the open-block marker it closes,
\* and the output of assertServerOutput for a balanced list is bracketed by
\* the pair <!--%+block:0%--> ... <!--%-block:0%-->.
C28_MarkerDepth ==
    LET n == Len(out)
        done == SubSeq(list, 1, n)
    IN  /\ n <= Len(list)
        /\ depth = Nesting(list, n)
        /\ \A i \in 1..n :
              /\ list[i] = OPEN => out[i] = OpenBlockMarker(Nesting(list, i - 1))
              /\ list[i] = CLOSE => out[i] = CloseBlockMarker(Nesting(list, i - 1) - 1)
              /\ list[i] = SEP => out[i] = "<!--%sep%-->"
              /\ list[i] = EMPTY => out[i] = "<!--%empty%-->"
              /\ list[i] \in {SEP, EMPTY} => Nesting(list, i) = Nesting(list, i - 1)
        /\ WellNested(done) =>
              /\ depth >= 0
              /\ \A j \in 1..n :
                    list[j] = CLOSE =>
                       \E d \in 0..Len(list) :
                          /\ out[Match(list, j)] = OpenBlockMarker(d)
                          /\ out[j] = CloseBlockMarker(d)
        /\ (by = "assertServerOutput" /\ returned # <<>>
              /\ Balanced(SubSeq(list, 2, Len(list) - 1))) =>
              /\ Match(list, Len(list)) = 1
              /\ returned[1] = "<!--%+block:0%-->"
                                 \o Join(SubSeq(out, 2, Len(out) - 1))
                                 \o "<!--%-block:0%-->"

\* assertServerOutput returned the markers of a block nested in the
\* outermost block, with a separator inside.
C28_Witness ==
    /\ by = "assertServerOutput"
    /\ returned # <<>>
    /\ Balanced(list)
    /\ \E i \in 1..Len(list) : list[i] = OPEN /\ Nesting(list, i - 1) = 1
    /\ \E i \in 1..Len(list) : list[i] = SEP

\* ------------------------------------------------------------------------
\* Properties of SpecRender
\* ------------------------------------------------------------------------

\* A step that is a rerender() pass of the test.
RerenderPass == TestRerender \/ TestAssertStableRerender

\* The context holds what it held at the pass before.
ContextUnchanged == Rendered /\ objects[Context].fields = pass.context

\* C21: Idempotent rerender. After a render, every rerender() pass made
\* with the context unchanged since the pass before leaves the snapshot of
\* this.element (its nodes by identity, with their nesting) as it was, and
\* assertStableRerender() passes.
C21_IdempotentRerender ==
    [][/\ RerenderPass /\ ContextUnchanged
          => TakeSnapshot(document', TestElement) = TakeSnapshot(document, TestElement)
       /\ TestAssertStableRerender /\ ContextUnchanged => asserted'.ok]_vars

\* A second rerender() in a row with the context unchanged, asserted stable,
\* on a tree with nested nodes.
C21_Witness ==
    /\ Rendered
    /\ pass.op = "rerender"
    /\ pass.context = objects[Context].fields
    /\ asserted.method = "assertStableRerender"
    /\ asserted.ok
    /\ thisSnapshot = TakeSnapshot(document, TestElement)
    /\ \E i \in DOMAIN thisSnapshot : thisSnapshot[i] = Down
    /\ pass.before = document

\* C22: Minimal update. In a rerender() pass a binding whose reference is at
\* the revision last observed is skipped without a write to the tree (the
\* references of a test share the tag of its context, so that is a pass at
\* the revision of the pass before), and a pass made while no value behind
\* a binding has changed since the pass before performs no write at all.
C22_MinimalUpdate ==
    [][RerenderPass
          => /\ ContextRevision = pass.revision
                   => pass'.writes = 0 /\ document' = document
             /\ ContextUnchanged => pass'.writes = 0]_vars

\* The templates whose bindings are text and attribute bindings only.
InPlaceTemplates == {"TextCurlies", "AttributeExpression"}

\* The value a node shows for a text or attribute binding.
Shown(nodes, b) ==
    IF b.type = "text" THEN nodes[b.node].nodeValue
    ELSE LET a == CHOOSE a \in nodes[b.node].attributes : a.name = b.attr IN a.value

\* C23: In-place update with revision refresh. A rerender() pass over text
\* and attribute bindings creates and replaces no node (the snapshot of
\* this.element is the same, node for node), leaves every bound node showing
\* the current value of its reference, and remembers the current revision
\* for every binding; the pass made next without a change of the context
\* performs no write.
C23_InPlaceUpdate ==
    [][RerenderPass /\ result[1].template \in InPlaceTemplates
          => /\ TakeSnapshot(document', TestElement) = TakeSnapshot(document, TestElement)
             /\ Len(document') = Len(document)
             /\ \A i \in DOMAIN result'[1].bindings :
                   /\ result'[1].bindings[i].revision = ContextRevision
                   /\ Shown(document', result'[1].bindings[i])
                        = NormalizeTextValue(
                             objects[Context].fields[result'[1].bindings[i].expr.key])
             /\ (\A i \in DOMAIN result[1].bindings :
                    result[1].bindings[i].revision = ContextRevision)
                   => pass'.writes = 0 /\ document' = document]_vars

\* A rerender() after the title changed wrote both text nodes in place.
C23_Witness ==
    /\ Rendered
    /\ result[1].template = "TextCurlies"
    /\ pass.op = "rerender"
    /\ pass.writes = 2
    /\ pass.revision > pass.last
    /\ document # pass.before
    /\ TakeSnapshot(document, TestElement) = TakeSnapshot(pass.before, TestElement)
    /\ \A i \in DOMAIN result[1].bindings :
          /\ result[1].bindings[i].revision = ContextRevision
          /\ Shown(document, result[1].bindings[i]) = "goodbye"

\* The templates of the tests Simple blocks and Nested blocks.
BlockTemplates == {"SimpleBlocks", "NestedBlocks"}

\* The context has the {{#if}} blocks of the template render <p>{{user}}</p>.
BranchShown(name, fields) ==
    /\ Truthy(fields["admin"])
    /\ name = "NestedBlocks" => Truthy(fields["access"])

\* The nodes that stand for the outer {{#if}} block in the div.
BlockBounds(bindings) == bindings[1].bounds

\* The node is <p>{{user}}</p> as the context has it.
IsBranch(nodes, n, fields) ==
    /\ nodes[n].nodeType = "element"
    /\ nodes[n].tagName = "p"
    /\ Len(nodes[n].childNodes) = 1
    /\ nodes[nodes[n].childNodes[1]].nodeValue = fields["user"]

\* The node is an empty marker.
IsEmptyMarker(nodes, n) ==
    nodes[n].nodeType = "comment" /\ nodes[n].nodeValue = ""

\* C24: Branch swap stability. After a rerender() of an {{#if}} block without
\* else branch (or of an {{#if}} block nested in one), the block is exactly
\* one node in the div, followed by the same '!' text node: the <p> while the
\* controlling values are truthy, one empty marker otherwise. When the pass
\* flips the block, from <p> to marker or back, the node is a freshly created
\* one, and assertStableNodes({ except: <the node replaced> }) passes: every
\* node outside the block is the same node as before.
C24_BranchSwapStability ==
    [][RerenderPass /\ result[1].template \in BlockTemplates
          => LET name == result[1].template
                 fields == objects[Context].fields
                 old == BlockBounds(result[1].bindings)
                 new == BlockBounds(result'[1].bindings)
                 div == document[TestElement].childNodes[1]
             IN  /\ Len(new) = 1
                 /\ document'[TestElement].childNodes = <<div>>
                 /\ Len(document'[div].childNodes) = 2
                 /\ document'[div].childNodes[1] = new[1]
                 /\ document'[div].childNodes[2] = document[div].childNodes[2]
                 /\ document'[document'[div].childNodes[2]] =
                       document[document[div].childNodes[2]]
                 /\ IF BranchShown(name, fields)
                    THEN IsBranch(document', new[1], fields)
                    ELSE IsEmptyMarker(document', new[1])
                 /\ BranchShown(name, fields) # BranchShown(name, pass.context)
                       => /\ new[1] \notin DOMAIN document
                          /\ document'[old[1]].parentNode = NoNode
                 /\ StableNodes(TakeSnapshot(document, TestElement),
                                TakeSnapshot(document', TestElement), {old[1]})]_vars

\* The block went from <p> to the marker and, in the pass before this state,
\* back to a <p>: a third node, neither the first <p> nor the marker.
C24_Witness ==
    /\ Rendered
    /\ result[1].template \in BlockTemplates
    /\ pass.op = "rerender"
    /\ BranchShown(result[1].template, objects[Context].fields)
    /\ IsEmptyMarker(pass.before, BlockBounds(pass.bindings)[1])
    /\ IsBranch(document, BlockBounds(result[1].bindings)[1], objects[Context].fields)
    /\ \E n \in DOMAIN document :
          /\ n < BlockBounds(pass.bindings)[1]
          /\ document[n].tagName = "p"
          /\ document[n].parentNode = NoNode

\* The entries of the {{#each}} block of Loops, and their keys.
LoopEntries(bindings) == bindings[1].entries

EntryKeys(entries) == {entries[i].key : i \in DOMAIN entries}

\* The nodes an entry has in the div: its span and its two text nodes.
EntryBounds(entry) == {entry.bounds[i] : i \in DOMAIN entry.bounds}

\* The nodes rendered for an entry: those and the text node in the span.
EntryNodes(nodes, entry) ==
    EntryBounds(entry) \cup {nodes[entry.bounds[1]].childNodes[1]}

\* The entry shows <span>{{p.handle}}</span> - {{p.name}} for the item.
ShowsItem(nodes, entry, item) ==
    /\ Len(entry.bounds) = 3
    /\ nodes[entry.bounds[1]].tagName = "span"
    /\ nodes[nodes[entry.bounds[1]].childNodes[1]].nodeValue = item["handle"]
    /\ nodes[entry.bounds[2]].nodeValue = " - "
    /\ nodes[entry.bounds[3]].nodeValue = item["name"]

Attached(nodes) == {n \in DOMAIN nodes : nodes[n].parentNode # NoNode}

\* C25: Loop keying. After a rerender() of {{#each people key="handle"}} the
\* div holds the nodes of one entry per item, in the order of the list,
\* each showing its item. The entry of a handle that was in the list before
\* keeps its nodes; the nodes of the handles that left the list, and no
\* others besides an empty marker, are taken out of the tree; nodes are
\* created for the handles that entered the list, and no others besides an
\* empty marker.
C25_LoopKeying ==
    [][RerenderPass /\ result[1].template = "Loops"
          => LET items == objects[Context].fields["people"]
                 old == LoopEntries(result[1].bindings)
                 new == LoopEntries(result'[1].bindings)
                 div == document[TestElement].childNodes[1]
                 kept == EntryKeys(old) \cap EntryKeys(new)
                 plain(nodes) == {n \in DOMAIN nodes : ~IsEmptyMarker(nodes, n)}
             IN  /\ Len(new) = Len(items)
                 /\ \A i \in DOMAIN items :
                       /\ new[i].key = items[i]["handle"]
                       /\ ShowsItem(document', new[i], items[i])
                 /\ items # <<>> => document'[div].childNodes = Flatten(new)
                 /\ items = <<>> => /\ Len(document'[div].childNodes) = 1
                                    /\ IsEmptyMarker(document', document'[div].childNodes[1])
                 /\ \A key \in kept :
                       EntryOf(new, key).bounds = EntryOf(old, key).bounds
                 /\ (Attached(document) \ Attached(document')) \cap plain(document)
                       = UNION {EntryBounds(EntryOf(old, key)) :
                                   key \in EntryKeys(old) \ EntryKeys(new)}
                 /\ (DOMAIN document' \ DOMAIN document) \cap plain(document')
                       = UNION {EntryNodes(document', EntryOf(new, key)) :
                                   key \in EntryKeys(new) \ EntryKeys(old)}]_vars

\* A pass that created the nodes of a handle that entered the list, kept
\* the nodes of two others and put them in the other order.
C25_Witness ==
    /\ Rendered
    /\ result[1].template = "Loops"
    /\ pass.op = "rerender"
    /\ LET old == LoopEntries(pass.bindings)
           new == LoopEntries(result[1].bindings)
       IN  /\ EntryKeys(new) \ EntryKeys(old) # {}
           /\ document[document[TestElement].childNodes[1]].childNodes = Flatten(new)
           /\ \E i \in DOMAIN new, j \in DOMAIN new :
                 /\ i < j
                 /\ new[i].key \in EntryKeys(old)
                 /\ new[j].key \in EntryKeys(old)
                 /\ EntryOf(old, new[i].key).bounds = new[i].bounds
                 /\ EntryOf(old, new[j].key).bounds = new[j].bounds
                 /\ IndexOf(Flatten(old), EntryOf(old, new[i].key).bounds[1])
                       > IndexOf(Flatten(old), EntryOf(old, new[j].key).bounds[1])

\* ------------------------------------------------------------------------
\* Properties of SpecRehydration
\* ------------------------------------------------------------------------

\* The tree of a from-scratch client render of a template with the context
\* of the test.
FromScratch(name) ==
    RenderStatements(Machine(<<ElementNode("div")>>, <<references[1]>>),
                     Template(name), RootScope(1), TestElement, NoNode).m.nodes

\* The items of a snapshot that are not nodes created since a tree.
ServerProvided(snapshot, nodes) ==
    SelectSeq(snapshot, LAMBDA item : item.item # "node" \/ item.node \in DOMAIN nodes)

\* The server side wrote an empty marker.
HasEmptyMarker(nodes) ==
    \E n \in DOMAIN nodes : IsComment(nodes, n, EmptyText)

PathContexts == {[user |-> Godfrey, flag |-> False]}

PathKeys == {"user", "name", "flag"}

PathWrites == {<<"user", Null>>, <<"user", Godfrey>>, <<"flag", "">>, <<"flag", False>>}

notPathVars ==
    <<envVars, scopeVars, harnessVars, syntaxVars, domVars, markerVars, renderVars, callbackVars>>

\* reference.value(): nothing but the caller's record of it changes.
ReferenceValueCall(r) ==
    /\ read' = [reference |-> r, value |-> ReferenceValue(objects, references, r)]
    /\ called' = [op |-> "value", object |-> r]
    /\ UNCHANGED <<REVISION, tags, objects, references, observed>>

PathNewContext ==
    /\ objects = <<>>
    /\ \E value \in PathContexts : VersionedObjectNew(value)
    /\ UNCHANGED <<read, notPathVars>>

PathNewRoot ==
    /\ objects # <<>>
    /\ references = <<>>
    /\ ReferenceNewRoot(Context)
    /\ UNCHANGED <<read, notPathVars>>

PathGet ==
    /\ Len(references) < MaxChain
    /\ \E r \in DOMAIN references, key \in PathKeys : ReferenceGet(r, key)
    /\ UNCHANGED <<read, notPathVars>>

PathSet ==
    /\ REVISION < MaxRevision
    /\ objects # <<>>
    /\ \E write \in PathWrites : VersionedObjectSet(Context, write[1], write[2])
    /\ UNCHANGED <<read, notPathVars>>

PathValue ==
    /\ \E r \in DOMAIN references : ReferenceValueCall(r)
    /\ UNCHANGED notPathVars

NextPath ==
    \/ PathNewContext
    \/ PathNewRoot
    \/ PathGet
    \/ PathSet
    \/ PathValue

SpecPath == Init /\ [][NextPath]_vars

\* ------------------------------------------------------------------------
\* SpecCallbacks: a caller of the environment whose callbacks may raise and
\* may call back into the environment
\* ------------------------------------------------------------------------

notEnvVars == <<scopeVars, harnessVars, syntaxVars, domVars, tagVars, markerVars, renderVars, pathVars>>

CallerBegin == EnvBegin /\ UNCHANGED <<callbackVars, notEnvVars>>

CallerDidCreate ==
    /\ EnvDidCreate("component1", "componentManager1")
    /\ UNCHANGED <<callbackVars, notEnvVars>>

CallerDidUpdate ==
    /\ EnvDidUpdate("component1", "componentManager1")
    /\ UNCHANGED <<callbackVars, notEnvVars>>

CallerScheduleInstallModifier ==
    /\ EnvScheduleInstallModifier("modifier1", "modifierManager1")
    /\ UNCHANGED <<callbackVars, notEnvVars>>

CallerDidDestroy ==
    /\ EnvDidDestroy("destroyable1")
    /\ UNCHANGED <<callbackVars, notEnvVars>>

CallerScheduleUpdateModifier ==
    /\ EnvScheduleUpdateModifier("modifier1", "modifierManager1")
    /\ UNCHANGED <<callbackVars, notEnvVars>>

CallerCommit == EnvCommitCall /\ UNCHANGED <<callbackVars, notEnvVars>>

CallbackReturns == EnvCommitInvoke /\ UNCHANGED <<callbackVars, notEnvVars>>

CallbackRaises == EnvCommitInvokeRaising /\ UNCHANGED notEnvVars

CallbackBegins == EnvCommitInvokeBeginning /\ UNCHANGED notEnvVars

CallbackDidCreates ==
    /\ EnvCommitInvokeRegistering("didCreate", "didCreate", "componentManager2", "component2",
          TransactionDidCreate(transaction[1], "component2", "componentManager2"))
    /\ UNCHANGED notEnvVars

CallbackDidDestroys ==
    /\ EnvCommitInvokeRegistering("didDestroy", "destroy", "destroyable2", "none",
          TransactionDidDestroy(transaction[1], "destroyable2"))
    /\ UNCHANGED notEnvVars

CallbackSchedulesUpdateModifier ==
    /\ EnvCommitInvokeRegistering("scheduleUpdateModifier", "update", "modifierManager2", "modifier1",
          TransactionScheduleUpdateModifier(transaction[1], "modifier1", "modifierManager2"))
    /\ UNCHANGED notEnvVars

CommitAdvances == EnvCommitAdvance /\ UNCHANGED <<callbackVars, notEnvVars>>

CommitReturns == EnvCommitReturn /\ UNCHANGED <<callbackVars, notEnvVars>>

NextCallbacks ==
    \/ CallerBegin
    \/ CallerDidCreate
    \/ CallerDidUpdate
    \/ CallerDidDestroy
    \/ CallerScheduleInstallModifier
    \/ CallerScheduleUpdateModifier
    \/ CallerCommit
    \/ CallbackReturns
    \/ CallbackRaises
    \/ CallbackBegins
    \/ CallbackDidCreates
    \/ CallbackDidDestroys
    \/ CallbackSchedulesUpdateModifier
    \/ CommitAdvances
    \/ CommitReturns

SpecCallbacks == Init /\ [][NextCallbacks]_vars

\* ------------------------------------------------------------------------
\* SpecEnvironment: a caller of every method of the environment
\* ------------------------------------------------------------------------

InitEnvironment ==
    /\ EnvInit
    /\ ScopeInit
    /\ HarnessIdle
    /\ testCase = "none"
    /\ SyntaxInit
    /\ element \in {CreateElement(e) : e \in {x \in Elements : x.tagName = "INPUT"}}
    /\ binding = <<>>
    /\ ops = <<>>
    /\ LaterIdle

CallerStatement ==
    /\ AtRest
    /\ \E s \in OtherStatements : EnvStatement(s)
    /\ UNCHANGED <<envVars, scopeVars, harnessVars, domVars, laterVars>>

CallerAttributeFor ==
    /\ AtRest
    /\ \E isTrusting \in BOOLEAN : EnvAttributeFor("value", isTrusting, NoNamespace)
    /\ UNCHANGED <<envVars, scopeVars, harnessVars, syntaxVars, laterVars>>

CallerGet ==
    /\ \E call \in Getters : EnvGet(call)
    /\ UNCHANGED <<callbackVars, notEnvVars>>

NextEnvironment ==
    \/ CallerBegin
    \/ CallerDidCreate
    \/ CallerDidUpdate
    \/ CallerDidDestroy
    \/ CallerScheduleInstallModifier
    \/ CallerScheduleUpdateModifier
    \/ CallerCommit
    \/ CallbackReturns
    \/ CommitAdvances
    \/ CommitReturns
    \/ CallerStatement
    \/ CallerAttributeFor
    \/ CallerGet

SpecEnvironment == InitEnvironment /\ [][NextEnvironment]_vars

\* ------------------------------------------------------------------------
\* SpecStrategy: the change list chosen for an attribute of an element
\* ------------------------------------------------------------------------

\* The elements a strategy is chosen for: form controls of a browser
\* document, an input of a document whose nodes have no properties, an
\* input of an XML document (lower-case tagName), an input in the SVG
\* namespace, and an anchor.
StrategyElements ==
    { [tagName |-> "INPUT", namespaceURI |-> HTML_NAMESPACE, has |-> {"value", "title"}],
      [tagName |-> "TEXTAREA", namespaceURI |-> HTML_NAMESPACE, has |-> {"value", "title"}],
      [tagName |-> "SELECT", namespaceURI |-> HTML_NAMESPACE, has |-> {"value", "title"}],
      [tagName |-> "INPUT", namespaceURI |-> HTML_NAMESPACE, has |-> {}],
      [tagName |-> "input", namespaceURI |-> HTML_NAMESPACE, has |-> {"value", "title"}],
      [tagName |-> "INPUT", namespaceURI |-> SVG_NAMESPACE, has |-> {"value"}],
      [tagName |-> "A", namespaceURI |-> HTML_NAMESPACE, has |-> {"href", "title", "value"}] }

StrategyAttrNames == {"value", "VALUE", "href", "title"}

InitStrategy ==
    /\ EnvInit
    /\ ScopeInit
    /\ HarnessIdle
    /\ testCase = "none"
    /\ SyntaxInit
    /\ element \in {CreateElement(e) : e \in StrategyElements}
    /\ binding = <<>>
    /\ ops = <<>>
    /\ LaterIdle

SelectStrategy ==
    /\ \E attr \in StrategyAttrNames, isTrusting \in BOOLEAN, namespace \in Namespaces :
          EnvAttributeFor(attr, isTrusting, namespace)
    /\ UNCHANGED <<envVars, scopeVars, harnessVars, syntaxVars, laterVars>>

NextStrategy == SelectStrategy

SpecStrategy == InitStrategy /\ [][NextStrategy]_vars

\* ------------------------------------------------------------------------
\* Properties of chains of references
\* ------------------------------------------------------------------------

\* The references derived from a reference by get(key) calls, itself included.
RECURSIVE DerivedFrom(_, _, _)
DerivedFrom(refs, r, d) ==
    \/ d = r
    \/ refs[d].type = "path" /\ DerivedFrom(refs, r, refs[d].parent)

\* C31: value() of a reference never raises, whatever the length of its
\* chain; where the value of the parent of a path reference is null or
\* undefined, value() of that reference and of every reference derived from
\* it is null or undefined.
C31_AbsentShortCircuit ==
    /\ read.value # TypeError
    /\ \A r \in DOMAIN references :
          /\ ReferenceValue(objects, references, r) # TypeError
          /\ (/\ references[r].type = "path"
              /\ ReferenceValue(objects, references, references[r].parent) \in Absent)
                => \A d \in DOMAIN references :
                      DerivedFrom(references, r, d)
                         => ReferenceValue(objects, references, d) \in Absent

\* value() was called on a reference three get(key) calls below the root
\* whose first parent below the root holds null, and returned null.
C31_Witness ==
    /\ read.reference \in DOMAIN references
    /\ DepthOf(references, read.reference) = 3
    /\ read.value = Null
    /\ objects[Context].fields["user"] = Null
    /\ \E r \in DOMAIN references :
          /\ DepthOf(references, r) = 1
          /\ references[r].key = "user"
          /\ DerivedFrom(references, r, read.reference)

\* The keys of the get(key) calls that lead from the root to a reference.
RECURSIVE KeysOf(_, _)
KeysOf(refs, r) ==
    IF refs[r].type = "root" THEN <<>>
    ELSE Append(KeysOf(refs, refs[r].parent), refs[r].key)

\* What following the keys from a value arrives at, in the objects as they
\* are: a value without properties ends the walk.
RECURSIVE Following(_, _, _)
Following(objs, value, keys) ==
    IF keys = <<>> \/ value \in Falsy THEN value
    ELSE Following(objs, PropertyOf(objs, value, Head(keys)), Tail(keys))

\* C32: value() returns what following the keys of the reference from the
\* root object arrives at when it is called, also for a reference made before
\* the object was changed, and changes nothing; get(key) adds one reference,
\* another one at every call, and changes neither the references there are
\* nor any object or tag.
C32_LazyReferences ==
    [][/\ called'.op = "value"
            => /\ read'.value = Following(objects', ObjectValue(RootOf(references', read'.reference)),
                                          KeysOf(references', read'.reference))
               /\ UNCHANGED <<REVISION, tags, objects, references>>
       /\ Len(references') > Len(references)
            => /\ Len(references') = Len(references) + 1
               /\ \A r \in DOMAIN references : references'[r] = references[r]
               /\ UNCHANGED <<REVISION, tags, objects, read>>]_vars

\* value() of one reference returned 'Godfrey', the object was changed, and
\* value() of the same reference returns null; two references were made by
\* get('user') on the root.
C32_Witness ==
    /\ called.op = "value"
    /\ read.reference \in DOMAIN references
    /\ DepthOf(references, read.reference) = 2
    /\ read.value = Null
    /\ REVISION > InitialRevision
    /\ \E r, s \in DOMAIN references :
          /\ r # s
          /\ references[r] = references[s]
          /\ references[r].type = "path"

\* C39: value() of a path reference whose parent holds a value other than
\* null and undefined, the falsy values false, 0 and '' included, returns
\* the property of the parent value named by the key.
C39_ReadThrough ==
    [][(/\ called'.op = "value"
        /\ references[read'.reference].type = "path"
        /\ ReferenceValue(objects, references, references[read'.reference].parent)
              \notin Absent)
          => read'.value
                = PropertyOf(objects,
                             ReferenceValue(objects, references,
                                            references[read'.reference].parent),
                             references[read'.reference].key)]_vars

\* ------------------------------------------------------------------------
\* Properties of commit() with callbacks that raise or call back
\* ------------------------------------------------------------------------

\* The step ends a commit() that was draining: it returns or is aborted.
CommitEnds ==
    /\ ~AtRest
    /\ AtRest'
    /\ outcome'.call = "commit"

\* The step invokes a callback.
Invokes == Len(log') > Len(log)

\* C33: when commit() ends, by returning or because a callback raised, no
\* transaction is open; the begin() that follows succeeds, and no callback
\* of a transaction whose commit() was aborted is invoked afterwards.
C33_DiscardedWhenCommitEnds ==
    [][/\ CommitEnds => ~InTransaction'
       /\ (/\ AtRest
           /\ outcome.call = "commit"
           /\ outcome.error \in {NoError, CallbackError}
           /\ outcome'.call = "begin")
             => outcome'.error = NoError
       /\ Invokes => \A r \in Range(raised) : log'[Len(log')].cycle # r.cycle]_vars

\* The calls of callbacks that registered an entry.
LateEntries == {l \in Range(reentered) : l.entry # <<>>}

\* The invocations of a late entry.
InvocationsOf(l) == {j \in (l.at + 1)..Len(log) : log[j] = l.entry[1]}

\* No commit() was aborted between the registration of a late entry and
\* invocation j.
SameCommit(l, j) == \A r \in Range(raised) : r.at < l.at \/ r.at >= j

\* C34: while commit() is draining, a callback that calls begin() gets the
\* nested-transaction error and a callback that registers an entry is
\* accepted; once the commit() of its transaction has returned, the entry was
\* invoked within the commit() it was registered in exactly if its queue was
\* the one being drained or a later one, and an entry added to a queue
\* already drained is never invoked.
C34_ReentrancyDuringCommit ==
    /\ \A l \in Range(reentered) :
          /\ l.call = "begin" => l.error = NestedTransaction
          /\ l.call # "begin" => l.error = NoError /\ l.entry[1] \in Range(registered)
    /\ \A l \in LateEntries :
          /\ Closed(l.cycle)
                => ((\E j \in InvocationsOf(l) : SameCommit(l, j))
                       <=> DrainRank(l.entry[1].op) >= DrainRank(l.during))
          /\ DrainRank(l.entry[1].op) < DrainRank(l.during) => InvocationsOf(l) = {}

\* ------------------------------------------------------------------------
\* Properties of the environment outside and across transactions
\* ------------------------------------------------------------------------

\* C35: didCreate, didUpdate, scheduleInstallModifier, scheduleUpdateModifier
\* and didDestroy called while no transaction is open fail with 'must be in
\* a transaction', record nothing and leave the environment idle; the
\* transaction begun next holds no entry, and no callback is ever invoked
\* that was not registered within a transaction.
C35_RegisterOutsideFails ==
    /\ [][/\ (~InTransaction /\ outcome'.call \in RegistrationCalls)
               => /\ outcome'.error = MustBeInTransaction
                  /\ ~InTransaction'
                  /\ AtRest'
                  /\ registered' = registered
                  /\ log' = log
          /\ (~InTransaction /\ InTransaction') => transaction' = <<NewTransaction>>]_vars
    /\ [](\A e \in Range(log) : e \in Range(registered))

\* Each of the five methods has failed outside a transaction at some point:
\* here didDestroy, after a transaction whose callbacks were invoked.
C35_Witness ==
    /\ outcome = Result("didDestroy", MustBeInTransaction)
    /\ ~InTransaction
    /\ cycle > 0
    /\ log # <<>>

\* The queues of a transaction a registration method pushes to.
QueuesOf(op) ==
    CASE op = "didCreate" -> {"createdComponents", "createdManagers"}
      [] op = "didUpdate" -> {"updatedComponents", "updatedManagers"}
      [] op = "destroy"   -> {"destructors"}
      [] op = "install"   -> {"scheduledInstallManagers", "scheduledInstallModifiers"}
      [] op = "update"    -> {"scheduledUpdateModifierManagers", "scheduledUpdateModifiers"}

\* The step makes a registration.
Registers == Len(registered') > Len(registered)

\* C36: whether a transaction is open changes only in begin() and commit():
\* the registration methods, statement(), attributeFor() and the getters
\* leave the transaction as it is (a registration but for the queue it pushes
\* to); a transaction begun and not committed stays open, and the next
\* begin() fails.
C36_OnlyBeginAndCommit ==
    [][/\ InTransaction' # InTransaction => outcome'.call \in {"begin", "commit"}
       /\ (outcome'.call \in RegistrationCalls \cup Getters /\ outcome' # outcome)
             => InTransaction' = InTransaction
       /\ (outcome'.call \in Getters /\ outcome' # outcome)
             => UNCHANGED <<transaction, commitPc, log, registered, cycle>>
       /\ (syntaxVars' # syntaxVars \/ domVars' # domVars) => UNCHANGED envVars
       /\ Registers
             => \A queue \in DOMAIN NewTransaction \ QueuesOf(registered'[Len(registered')].op) :
                   transaction'[1][queue] = transaction[1][queue]
       /\ (InTransaction /\ AtRest /\ outcome'.call = "begin" /\ envVars' # envVars)
             => /\ outcome'.error = NestedTransaction
                /\ transaction' = transaction]_vars

\* A transaction was begun, statement() and attributeFor() were called, two
\* entries were registered into different queues, no commit() was made and
\* the next begin() has failed.
C36_Witness ==
    /\ outcome = Result("begin", NestedTransaction)
    /\ cycle = 1
    /\ log = <<>>
    /\ statement # <<>>
    /\ binding # <<>>
    /\ Len(registered) = 2
    /\ registered[1].op # registered[2].op
    /\ transaction[1].destructors # <<>>

\* ------------------------------------------------------------------------
\* Properties of the attribute strategies across updates and of their choice
\* ------------------------------------------------------------------------

\* C37: for AttributeChangeList, updateAttribute with a value other than
\* null writes what setAttribute writes for that value with the namespace of
\* the binding, updateAttribute(null) leaves no attribute of that name in
\* that namespace, and after an update every attribute of that name is in
\* the namespace of the binding.
C37_NamespacePreserved ==
    (HasBinding /\ binding[1].changeList = "AttributeChangeList") =>
        \A k \in ChangeListOps :
            ops[k].op = "updateAttribute" =>
                /\ ops[k].value # Null
                      => ops[k].writes
                            = AttributeChangeListSetAttribute(ops[k].before, binding[1].attr,
                                                              ops[k].value, binding[1].namespace)
                /\ ops[k].value = Null
                      => ~\E a \in ops[k].after.attributes :
                             /\ a.name = binding[1].attr
                             /\ a.namespace = binding[1].namespace
                /\ \A a \in ops[k].after.attributes :
                      a.name = binding[1].attr => a.namespace = binding[1].namespace

\* The attribute is looked up as a property of a non-SVG element.
AsProperty ==
    ~IsSVG(element) /\ NormalizeProperty(element, binding[1].attr).type = "prop"

====
